---- MODULE Spec2Model ----
(***************************************************************************)
(* SpeedZone measurement engine (src/app/page.tsx).                        *)
(*                                                                         *)
(* Five state machines share this module:                                  *)
(*   Spec / SpecStale  the orchestrator, Page.startTest                    *)
(*   PingSpec          one call of measurePing                             *)
(*   DownloadSpec      one call of measureDownload                         *)
(*   DownloadFairSpec  the same, with what the event loop guarantees       *)
(*   UploadSpec        one call of measureUpload                           *)
(*   UploadFairSpec    the same, with what the event loop guarantees       *)
(*   TransferSpec      one call of measureDownload or of measureUpload     *)
(*   EndpointSpec      one GET on the local download endpoint, in its two  *)
(*                     implementations (src/unnamed/part_000 and           *)
(*                     src/app/api/download/route.ts)                      *)
(* Every specification constrains all variables; the variables of the      *)
(* machines a specification does not run stay at their initial values.     *)
(***************************************************************************)
EXTENDS Integers, Sequences, FiniteSets, TLC

---------------------------------------------------------------------------
(* Bounds of the model                                                     *)

\* runs that startTest may accept in one behaviour
MaxRuns == 2
\* invocations of startTest (accepted or not) in one behaviour
MaxCalls == 3

---------------------------------------------------------------------------
(* Values                                                                  *)

\* null, and a value that is not null
Null == <<>>

Some(v) == <<v>>

Phases == {"idle", "ping", "download", "upload", "complete", "error"}

ActivePhases == {"ping", "download", "upload"}

Max(a, b) == IF a >= b THEN a ELSE b

Min(a, b) == IF a <= b THEN a ELSE b

MinOf(S) == CHOOSE x \in S : \A y \in S : x <= y

\* a fraction num/den, kept exact as a pair
Frac(num, den) == <<num, den>>

FracZero == Frac(0, 1)

FracOne == Frac(1, 1)

INITIAL_RESULTS == [ping |-> Null, jitter |-> Null, download |-> Null, upload |-> Null]

INITIAL_PROGRESS == [ping |-> FracZero, download |-> FracZero, upload |-> FracZero]

SPEED_SCALES == <<25, 50, 75, 100, 150, 200, 300, 500, 750, 1000, 1500, 2000>>

adjustSpeedScale(current, value) ==
  IF value * 10 <= current * 9 THEN current
  ELSE LET fits == {i \in DOMAIN SPEED_SCALES : value <= SPEED_SCALES[i]} IN
       IF fits # {} THEN Max(SPEED_SCALES[MinOf(fits)], current)
       ELSE Max(((value + 199) \div 200) * 200, current)

---------------------------------------------------------------------------
(* Inputs of the orchestrator: what the three measurements hand back       *)

\* results of measurePing
PingResults == {[average |-> 12, jitter |-> 3], [average |-> 48, jitter |-> 0]}

\* (sample, completed, total) passed to the ping progress callback
PingProgressArgs == {<<12, 1, 24>>, <<48, 24, 24>>}

\* rates passed to the speed progress callback and returned in results
MbpsValues == {0, 95, 240}

Fractions == {Frac(1, 2), FracOne}

\* values a measurement can throw: Error objects and one non-Error value
ThrownValues ==
  { [isError |-> TRUE, message |-> "Ping failed with status 500"],
    [isError |-> TRUE, message |-> "Download stream unavailable"],
    [isError |-> TRUE, message |-> "Upload request failed"],
    [isError |-> FALSE, message |-> ""] }

\* performance.now() - testStart of a run that completes
ElapsedValues == {35000}

\* err instanceof Error ? err.message : 'Unexpected error'
ErrorMessage(err) == IF err.isError THEN err.message ELSE "Unexpected error"

---------------------------------------------------------------------------
(* Page: state                                                                 *)

VARIABLES
  \* Page: the orchestrator
  runRef,          \* runRef.current, the run token counter
  phase,           \* useState<Phase>
  running,         \* useState(false)
  results,         \* useState(INITIAL_RESULTS)
  progress,        \* useState({ping, download, upload})
  liveValue,       \* useState(0)
  speedScale,      \* useState(100)
  error,           \* useState<string | null>
  durationMs,      \* useState(0)
  closureRunning,  \* `running` as captured by the startTest closure of the last render
  runPc,           \* per run id: the await at which that invocation of startTest stands
  startCalls,      \* number of invocations of startTest so far
  event,           \* kind of the last handler that ran: "none", "accepted", "noop",
                   \* "progress", "resolved", "threw"
  actor            \* run id whose continuation or callback ran last (0: none)

orchVars == <<runRef, phase, running, results, progress, liveValue, speedScale,
              error, durationMs, closureRunning, runPc, startCalls, event, actor>>

Runs == 1..MaxRuns

\* the React state a run writes
orchState == <<phase, results, progress, liveValue, speedScale, error, running>>

OrchInit ==
  /\ runRef = 0
  /\ phase = "idle"
  /\ running = FALSE
  /\ results = INITIAL_RESULTS
  /\ progress = INITIAL_PROGRESS
  /\ liveValue = 0
  /\ speedScale = 100
  /\ error = Null
  /\ durationMs = 0
  /\ closureRunning = FALSE
  /\ runPc = [r \in Runs |-> "none"]
  /\ startCalls = 0
  /\ event = "none"
  /\ actor = 0

---------------------------------------------------------------------------
(* measureDownload: bounds and inputs                                      *)

\* workers of one throughput measurement (the `concurrency` argument)
Concurrency == 2
\* chunks that the streams of one measureDownload deliver in one behaviour
MaxChunks == 2
\* the clock stops advancing at this many milliseconds
MaxClock == 1200

Workers == 1..Concurrency

\* advances of performance.now() between two events, in ms
Ticks == {1200}

\* durationMs arguments: 400 ms and 1500.5 ms
DurationInputs == {Frac(400, 1), Frac(3001, 2)}

\* remoteUrl arguments: absent, empty, blank, padded, plain
RemoteUrlInputs ==
  {Null, Some(""), Some("  "), Some(" https://remote/__down "), Some("https://remote/__down")}

\* the remoteUrl arguments that name no remote: undefined or null, "" and blank
BlankUrls == {Null, Some(""), Some("  ")}

\* String.prototype.trim on the strings above
Trim(str) ==
  CASE str = "  " -> ""
    [] str = " https://remote/__down " -> "https://remote/__down"
    [] OTHER -> str

\* faulty variant: the length is taken of the untrimmed string
RemoteTarget_NoTrim(remoteUrl) ==
  IF remoteUrl = Null THEN Null
  ELSE IF remoteUrl[1] = "" THEN Null ELSE Some(Trim(remoteUrl[1]))

\* remoteUrl?.trim().length ? remoteUrl.trim() : null
RemoteTarget(remoteUrl) ==
  IF remoteUrl = Null THEN Null
  ELSE IF Trim(remoteUrl[1]) = "" THEN Null ELSE Some(Trim(remoteUrl[1]))

\* Math.floor of a non-negative fraction
Floor(q) == q[1] \div q[2]

\* faulty variant: the lower bound of 1000 ms is not applied
ClampDuration_NoMinimum(durationArg) == Floor(durationArg)

\* Math.max(Math.floor(durationMs), 1_000)
ClampDuration(durationArg) == Max(Floor(durationArg), 1000)

\* value.length of the chunks a stream delivers (0: an empty Uint8Array)
ChunkSizes == {0, 1}

\* errors that are no AbortError
FetchErrors == {"Failed to fetch"}

\* faulty variant: the fraction is not limited to 1
Fraction_NoCap(elapsed, duration) == Frac(elapsed, duration)

\* min(1, elapsed / duration)
Fraction(elapsed, duration) ==
  IF elapsed >= duration THEN FracOne ELSE Frac(elapsed, duration)

RECURSIVE Gcd(_, _)
Gcd(a, b) == IF b = 0 THEN a ELSE Gcd(b, a % b)

\* a * b in lowest terms (common factors are removed before multiplying)
FracMul(a, b) ==
  LET g1 == Max(Gcd(a[1], b[2]), 1)
      g2 == Max(Gcd(b[1], a[2]), 1)
  IN Frac((a[1] \div g1) * (b[1] \div g2), (a[2] \div g2) * (b[2] \div g1))

\* a / b for b # 0
FracDiv(a, b) == FracMul(a, Frac(b[2], b[1]))

\* elapsedMs / 1000
Seconds(elapsedMs) == Frac(elapsedMs, 1000)

\* faulty variant: the bytes are not converted to bits
Rate_Bytes(bytes, elapsedMs) ==
  IF elapsedMs > 0
    THEN FracDiv(Frac(bytes, 1000000), Seconds(elapsedMs))
    ELSE FracZero

\* (bytes * 8) / 1_000_000 / seconds, and 0 when seconds is not positive
Rate(bytes, elapsedMs) ==
  IF elapsedMs > 0
    THEN FracDiv(Frac(bytes * 8, 1000000), Seconds(elapsedMs))
    ELSE FracZero

\* the object measureDownload and measureUpload return
Throughput(bytes, elapsedMs) ==
  [mbps |-> Rate(bytes, elapsedMs), bytes |-> bytes, seconds |-> Seconds(elapsedMs)]

\* what onProgress receives: the rate and the fraction; bytes and elapsedMs
\* are the values the rate was computed from
Report(bytes, elapsedMs, fraction) ==
  Some([mbps |-> Rate(bytes, elapsedMs), bytes |-> bytes, elapsedMs |-> elapsedMs,
        fraction |-> fraction])

\* emitProgress(): the report it makes, or the previous one when it returns early
EmitProgress(last, bytes, now, duration) ==
  LET elapsed == Max(now - 0, 0) IN
    IF elapsed <= 0 THEN last ELSE Report(bytes, elapsed, Fraction(elapsed, duration))

---------------------------------------------------------------------------
(* measureDownload: state                                                  *)

VARIABLES
  dPc,            \* "init", "running", "returned", "threw"
  dDuration,      \* duration
  dDurationMs,    \* the durationMs argument of the call
  dRemoteTarget,  \* remoteTarget of openDownloadStream: Null or Some(url)
  dUrlBlank,      \* the remoteUrl argument was undefined, null, empty or blank
  dNow,           \* performance.now() - start
  dTimer,         \* "none", "armed", "fired", "cleared"
  dStop,          \* stop
  dTotalBytes,    \* totalBytes
  dControllers,   \* controllers, by the worker that owns each
  dAborted,       \* workers whose controller.signal is aborted
  dProgress,      \* the last onProgress report, Null before the first
  dRejection,     \* the first rejection Promise.all has seen, Null if none
  dResult,        \* the value returned, Null before
  wPc,            \* per worker: where runWorker stands
  wChunk,         \* per worker: size of the chunk its resolved read holds
  wFetches,       \* per worker: the fetches it issued, in order
  dChunks,        \* number of chunks delivered so far
  dDelivered,     \* total size of the chunks delivered so far
  dObserver,      \* the worker that saw the deadline pass after a chunk (0: none)
  dCaught,        \* the error that is no AbortError and reached a catch block of
                  \* runWorker while stop was unset, with the worker: Null or
                  \* Some(<<w, err>>)
  dSwallowed,     \* an error that is no AbortError reached a catch block of
                  \* runWorker while stop was set
  dRemoteKept,    \* some remote fetch settled with a usable response or an AbortError
  dLocalFault     \* the local endpoint failed, ended or sent an empty chunk

dlVars == <<dPc, dDuration, dDurationMs, dRemoteTarget, dUrlBlank, dNow, dTimer, dStop, dTotalBytes,
            dControllers, dAborted, dProgress, dRejection, dResult, wPc, wChunk,
            wFetches, dChunks, dDelivered, dObserver, dCaught, dSwallowed,
            dRemoteKept, dLocalFault>>

DlInit ==
  /\ dPc = "init"
  /\ dDuration = 0
  /\ dDurationMs = FracZero
  /\ dRemoteTarget = Null
  /\ dUrlBlank = TRUE
  /\ dNow = 0
  /\ dTimer = "none"
  /\ dStop = FALSE
  /\ dTotalBytes = 0
  /\ dControllers = {}
  /\ dAborted = {}
  /\ dProgress = Null
  /\ dRejection = Null
  /\ dResult = Null
  /\ wPc = [w \in Workers |-> "idle"]
  /\ wChunk = [w \in Workers |-> 0]
  /\ wFetches = [w \in Workers |-> <<>>]
  /\ dChunks = 0
  /\ dDelivered = 0
  /\ dObserver = 0
  /\ dCaught = Null
  /\ dSwallowed = FALSE
  /\ dRemoteKept = FALSE
  /\ dLocalFault = FALSE

\* the stream worker w reads, or the endpoint of its pending fetch
StreamOf(w) == wFetches[w][Len(wFetches[w])]

\* runWorker of w has returned or thrown
Finished(w) == wPc[w] \in {"returned", "threw"}

\* Promise.all has settled and the continuation of measureDownload is queued:
\* it runs before the next timer or network event
DlMainReady ==
  /\ dPc = "running"
  /\ \/ \E w \in Workers : wPc[w] = "threw"
     \/ \A w \in Workers : wPc[w] = "returned"

\* a continuation of measureDownload or of a worker is queued as a microtask:
\* it runs before the callback of any timer and before any network event
DlQueued == DlMainReady \/ \E w \in Workers : wPc[w] = "gotChunk"

---------------------------------------------------------------------------
(* measureUpload: bounds, inputs and state                                 *)

\* requests that the workers of one measureUpload send in one behaviour
MaxSends == 4

\* chunkBytes, the size of every payload, in units of 256 KiB
chunkBytes == 2

\* durationMs arguments of measureUpload
UlDurationInputs == {Frac(400, 1)}

\* xhr.status of a response
StatusInputs == {200, 399, 400}

\* xhr.status >= 200 && xhr.status < 400
StatusOk(status) == status >= 200 /\ status < 400

VARIABLES
  uPc,                 \* "init", "spawning", "running", "returned", "threw"
  uDuration,           \* duration
  uDurationMs,         \* the durationMs argument of the call
  remoteEndpoint,      \* Null or Some(url)
  uUrlBlank,           \* the remoteUrl argument was undefined, null, empty or blank
  uNow,                \* performance.now() - start
  uTimer,              \* "none", "armed", "fired", "cleared"
  uStop,               \* stop
  totalUploaded,
  uploads,             \* the requests in flight: <<w, k>> is the k-th request that
                       \* worker w created
  preferRemoteUpload,
  uProgress,           \* the last onProgress report, Null before the first
  uRejection,          \* the first rejection Promise.all has seen, Null if none
  uResult,             \* the value returned, Null before
  uSpawned,            \* number of runWorker() calls made
  xPc,                 \* per worker: "idle", "next" (setTimeout(scheduleNext) pending),
                       \* "retry" (setTimeout(dispatchUpload('local')) pending),
                       \* "inflight", "resolved", "rejected"
  xMode,               \* per worker: mode of its request in flight
  lastLoaded,          \* per worker: lastLoaded of its request in flight
  xSends,              \* per worker: the modes of the requests it created, in order
  xFailed,             \* workers of which a remote request failed
  xFellBack,           \* workers for which fallbackToLocal() returned true
  uLocalFailed,        \* a request to the local endpoint failed
  uCompleted,          \* number of requests that ended in onload with status 2xx/3xx
  uCreditOk,           \* bytes added to totalUploaded for those requests
  uCreditFailed,       \* bytes added to totalUploaded for requests that then failed
  uCreditAborted       \* bytes added to totalUploaded for requests that were aborted

ulVars == <<uPc, uDuration, uDurationMs, remoteEndpoint, uUrlBlank, uNow, uTimer, uStop, totalUploaded,
            uploads, preferRemoteUpload, uProgress, uRejection, uResult, uSpawned,
            xPc, xMode, lastLoaded, xSends, xFailed, xFellBack, uLocalFailed,
            uCompleted, uCreditOk, uCreditFailed, uCreditAborted>>

UlInit ==
  /\ uPc = "init"
  /\ uDuration = 0
  /\ uDurationMs = FracZero
  /\ remoteEndpoint = Null
  /\ uUrlBlank = TRUE
  /\ uNow = 0
  /\ uTimer = "none"
  /\ uStop = FALSE
  /\ totalUploaded = 0
  /\ uploads = {}
  /\ preferRemoteUpload = FALSE
  /\ uProgress = Null
  /\ uRejection = Null
  /\ uResult = Null
  /\ uSpawned = 0
  /\ xPc = [w \in Workers |-> "idle"]
  /\ xMode = [w \in Workers |-> "none"]
  /\ lastLoaded = [w \in Workers |-> 0]
  /\ xSends = [w \in Workers |-> <<>>]
  /\ xFailed = {}
  /\ xFellBack = {}
  /\ uLocalFailed = FALSE
  /\ uCompleted = 0
  /\ uCreditOk = 0
  /\ uCreditFailed = 0
  /\ uCreditAborted = 0

\* settled of the worker
settled(w) == xPc[w] \in {"resolved", "rejected"}

\* number of requests created so far
RECURSIVE SendsUpTo(_)
SendsUpTo(w) == IF w = 0 THEN 0 ELSE Len(xSends[w]) + SendsUpTo(w - 1)

SendCount == SendsUpTo(Concurrency)

\* the request that worker w created last
Request(w) == <<w, Len(xSends[w])>>

\* the workers that own the requests in rs
Owners(rs) == {r[1] : r \in rs}

\* bytes that the progress events of the requests in flight have added so far
RECURSIVE LoadedUpTo(_)
LoadedUpTo(w) == IF w = 0 THEN 0 ELSE lastLoaded[w] + LoadedUpTo(w - 1)

LoadedInFlight == LoadedUpTo(Concurrency)

\* Promise.all has settled and the continuation of measureUpload is queued: it
\* runs before the next timer or request event
UlMainReady ==
  /\ uPc = "running"
  /\ \/ \E w \in Workers : xPc[w] = "rejected"
     \/ \A w \in Workers : xPc[w] = "resolved"

\* measureUpload is still in its synchronous part, or its continuation is
\* queued: no timer callback or request event runs now
UlBusy == uPc = "spawning" \/ UlMainReady

---------------------------------------------------------------------------
(* measurePing: inputs and state                                           *)

\* the rounds arguments
RoundsInputs == {1, 2}

\* the concurrency arguments
ConcurrencyInputs == {1, 2, 4}

\* the places of a request in its round
Slots == UNION {1..c : c \in ConcurrencyInputs}

\* performance.now() - t0 of a request, in ms
Latencies == {10, 12, 14}

\* res.status of a response of /api/ping
PingStatusInputs == {200, 204, 500}

\* the negation of `!res.ok && res.status !== 204`
PingOk(status) == (status >= 200 /\ status < 300) \/ status = 204

\* what a request of the current round has come to
Pending == [st |-> "pending", ms |-> 0]

Done(ms) == [st |-> "done", ms |-> ms]

Failed == [st |-> "failed", ms |-> 0]

\* settled after measurePing rejected: nothing reads its value
Late == [st |-> "late", ms |-> 0]

VARIABLES
  pPc,            \* "init", "awaiting", "returned", "threw"
  pRounds,        \* rounds
  pConcurrency,   \* concurrency
  pRound,         \* round
  batch,          \* the requests of the current round, in the order of issue
  pIssued,        \* number of fetch calls so far
  filtered,       \* filtered
  pCalls,         \* the onProgress calls so far: <<value, completed, totalSamples>>
  pResult,        \* the value returned, Null before
  pRejection      \* the error thrown, Null if none

pingVars == <<pPc, pRounds, pConcurrency, pRound, batch, pIssued, filtered, pCalls,
              pResult, pRejection>>

PingInit ==
  /\ pPc = "init"
  /\ pRounds = 0
  /\ pConcurrency = 0
  /\ pRound = 0
  /\ batch = <<>>
  /\ pIssued = 0
  /\ filtered = <<>>
  /\ pCalls = <<>>
  /\ pResult = Null
  /\ pRejection = Null

\* the non-negative square root of the fraction q, kept exact by its square
Sqrt(q) == [square |-> q]

\* two fractions are the same number
FracEq(a, b) == a[1] * b[2] = b[1] * a[2]

\* reduce((acc, val) => acc + val, 0)
RECURSIVE Sum(_)
Sum(q) == IF q = <<>> THEN 0 ELSE Head(q) + Sum(Tail(q))

\* the squares of n * val - sum, summed: (val - average) ** 2 is this over n * n
RECURSIVE SumSqDev(_, _, _)
SumSqDev(q, n, sum) ==
  IF q = <<>> THEN 0
  ELSE (n * Head(q) - sum) * (n * Head(q) - sum) + SumSqDev(Tail(q), n, sum)

\* faulty variant: the squared deviations are divided by length - 1
Variance_Bessel(samples) ==
  LET n == Len(samples)
  IN Frac(SumSqDev(samples, n, Sum(samples)), n * n * (n - 1))

\* reduce((acc, val) => acc + (val - average) ** 2, 0) / filtered.length
Variance(samples) ==
  LET n == Len(samples)
  IN Frac(SumSqDev(samples, n, Sum(samples)), n * n * n)

\* faulty variant: the average is taken without the test for no samples
PingStats_NoGuard(samples) ==
  [average |-> Frac(Sum(samples), Len(samples)),
   jitter |-> Sqrt(Frac(Max(Variance(samples)[1], 0), Variance(samples)[2])),
   samples |-> samples]

\* measurePing after the loop: the value it returns
PingStats(samples) ==
  IF Len(samples) = 0
    THEN [average |-> FracZero, jitter |-> Sqrt(FracZero), samples |-> <<>>]
    ELSE [average |-> Frac(Sum(samples), Len(samples)),
          jitter |-> Sqrt(Frac(Max(Variance(samples)[1], 0), Variance(samples)[2])),
          samples |-> samples]

\* faulty variant: every result of the round is kept
Retained_All(roundResults) == roundResults

\* faulty variant: the last result of the round is dropped
Retained_DropLast(roundResults) == SubSeq(roundResults, 1, Len(roundResults) - 1)

\* results.slice(1)
Retained(roundResults) == Tail(roundResults)

---------------------------------------------------------------------------
(* The local download endpoint: inputs, pure functions and state           *)

\* 5 * 1024 * 1024
DEFAULT_TOTAL_BYTES == 5242880

\* 64 * 1024
DEFAULT_CHUNK_SIZE == 65536

\* 16 * 1024
MIN_CHUNK_SIZE == 16384

\* 4 * 1024 * 1024
MAX_CHUNK_SIZE == 4194304

\* chunks a continuous stream is pulled for
MaxPulls == 3

\* searchParams.get('bytes'): absent, '0', two counts, a fraction below 1, no
\* number
RawBytesInputs ==
  {Null, Some("0"), Some("40000"), Some("100000"), Some("0.5"), Some("abc")}

\* searchParams.get('chunk'): absent, below the minimum, in range with a
\* fraction, above the maximum
RawChunkInputs == {Null, Some("1000"), Some("20000.5"), Some("9000000")}

NaN == <<"NaN">>

\* Number(str) for the strings above
NumberOf(str) ==
  CASE str = "0" -> Frac(0, 1)
    [] str = "40000" -> Frac(40000, 1)
    [] str = "100000" -> Frac(100000, 1)
    [] str = "0.5" -> Frac(1, 2)
    [] str = "1000" -> Frac(1000, 1)
    [] str = "20000.5" -> Frac(40001, 2)
    [] str = "9000000" -> Frac(9000000, 1)
    [] OTHER -> NaN

\* a number | null in a condition: null and 0 are falsy
Truthy(n) == n # Null /\ n[1] # 0

\* parsePositiveInt(value): null, or Math.floor of a finite positive number
ParsePositiveInt(value) ==
  IF value = Null \/ value = Some("") THEN Null
  ELSE LET parsed == NumberOf(value[1]) IN
         IF parsed = NaN \/ parsed[1] <= 0 THEN Null ELSE Some(Floor(parsed))

\* faulty variant: the size is not limited to MIN_CHUNK_SIZE..MAX_CHUNK_SIZE
ClampChunkSize_NoClamp(size) ==
  IF ~Truthy(size) THEN DEFAULT_CHUNK_SIZE ELSE size[1]

\* clampChunkSize(size)
ClampChunkSize(size) ==
  IF ~Truthy(size) THEN DEFAULT_CHUNK_SIZE
  ELSE Min(Max(size[1], MIN_CHUNK_SIZE), MAX_CHUNK_SIZE)

\* totalBytes of GET in part_000: null asks for the continuous stream
TotalBytes(rawBytes) ==
  IF rawBytes = Null THEN Some(DEFAULT_TOTAL_BYTES)
  ELSE LET parsedBytes == ParsePositiveInt(rawBytes) IN
         IF Truthy(parsedBytes) THEN parsedBytes
         ELSE IF rawBytes = Some("0") THEN Null
         ELSE Some(DEFAULT_TOTAL_BYTES)

\* toInt(v) of route.ts
toInt(v) ==
  LET n == IF v # Null /\ v # Some("") THEN NumberOf(v[1]) ELSE NaN IN
    IF n # NaN /\ n[1] > 0 THEN Floor(n) ELSE DEFAULT_TOTAL_BYTES

VARIABLES
  ePc,               \* "idle", "open" (the response streams), "closed"
  eHandler,          \* the file whose GET answered: "part_000" or "route.ts"
  eRawBytes,         \* the bytes parameter of the request
  eRawChunk,         \* the chunk parameter of the request
  eTotalBytes,       \* totalBytes, Null for the continuous stream
  eChunkSize,        \* chunkSize of the stream
  eContentLength,    \* the Content-Length header, Null when it is not set
  sent,              \* sent of the fixed stream
  cancelled,         \* cancelled of the continuous stream
  ePulls,            \* chunks enqueued so far
  eLast,             \* size of the chunk enqueued last
  eCancelRequested   \* the client has cancelled the stream

endpointVars == <<ePc, eHandler, eRawBytes, eRawChunk, eTotalBytes, eChunkSize,
                  eContentLength, sent, cancelled, ePulls, eLast, eCancelRequested>>

EndpointInit ==
  /\ ePc = "idle"
  /\ eHandler = "none"
  /\ eRawBytes = Null
  /\ eRawChunk = Null
  /\ eTotalBytes = Null
  /\ eChunkSize = 0
  /\ eContentLength = Null
  /\ sent = 0
  /\ cancelled = FALSE
  /\ ePulls = 0
  /\ eLast = 0
  /\ eCancelRequested = FALSE

---------------------------------------------------------------------------
(* Frames: what the operations of one machine leave alone                  *)

OrchFrame == UNCHANGED <<dlVars, ulVars, pingVars, endpointVars>>

DlFrame == UNCHANGED <<orchVars, ulVars, pingVars, endpointVars>>

UlFrame == UNCHANGED <<orchVars, dlVars, pingVars, endpointVars>>

PingFrame == UNCHANGED <<orchVars, dlVars, ulVars, endpointVars>>

EndpointFrame == UNCHANGED <<orchVars, dlVars, ulVars, pingVars>>

---------------------------------------------------------------------------
(* Page.startTest                                                          *)

\* faulty variant: the guard of startTest is missing
AlreadyRunning_Never == FALSE

\* if (running) return;   -- `running` is the value the closure captured
AlreadyRunning == closureRunning

\* faulty variant: the token checks are missing
Stale_Never(runId) == FALSE

\* if (runRef.current !== runId) return;
Stale(runId) == runRef # runId

\* React commits the pending state: the next closure of startTest sees it
Render ==
  /\ closureRunning # running
  /\ closureRunning' = running
  /\ UNCHANGED <<runRef, phase, running, results, progress, liveValue, speedScale,
                 error, durationMs, runPc, startCalls, event, actor>>
  /\ OrchFrame

\* faulty variant: a token that exists is handed out again
NextRunId_Reuse == Max(runRef, 1)

\* const runId = runRef.current + 1;
NextRunId == runRef + 1

\* faulty variant: the results of the previous run are kept
ResetState_KeepsResults ==
  /\ error' = Null
  /\ durationMs' = 0
  /\ phase' = "ping"
  /\ running' = TRUE
  /\ results' = results
  /\ progress' = INITIAL_PROGRESS
  /\ liveValue' = 0
  /\ speedScale' = 100

\* the state updates of an accepted startTest, from setError(null) to
\* setSpeedScale(100)
ResetState ==
  /\ error' = Null
  /\ durationMs' = 0
  /\ phase' = "ping"
  /\ running' = TRUE
  /\ results' = INITIAL_RESULTS
  /\ progress' = INITIAL_PROGRESS
  /\ liveValue' = 0
  /\ speedScale' = 100

\* One invocation of startTest up to its first await.  `flushed` says whether
\* the caller is the handler of the current render (React flushes the updates
\* of a click before the next event) or may be a closure of an earlier render.
StartTest(flushed) ==
  /\ flushed => closureRunning = running
  /\ startCalls < MaxCalls
  /\ startCalls' = startCalls + 1
  /\ actor' = 0
  /\ IF AlreadyRunning
       THEN /\ event' = "noop"
            /\ UNCHANGED <<runRef, phase, running, results, progress, liveValue,
                           speedScale, error, durationMs, closureRunning, runPc>>
       ELSE /\ runRef < MaxRuns
            /\ LET runId == NextRunId IN
                 /\ runRef' = runId
                 /\ runPc' = [runPc EXCEPT ![runId] = "ping"]
            /\ ResetState
            /\ event' = "accepted"
            /\ UNCHANGED closureRunning
  /\ OrchFrame

\* a callback or continuation of a superseded run: returns at the token check
Discard(r, pc) ==
  /\ runPc' = [runPc EXCEPT ![r] = pc]
  /\ UNCHANGED <<runRef, phase, running, results, progress, liveValue, speedScale,
                 error, durationMs, closureRunning, startCalls>>

\* onProgress of measurePing
OnPingProgress(r, args) ==
  /\ runPc[r] = "ping"
  /\ actor' = r
  /\ event' = "progress"
  /\ IF Stale(r) THEN Discard(r, runPc[r])
     ELSE /\ progress' = [progress EXCEPT !.ping = Frac(args[2], args[3])]
          /\ liveValue' = args[1]
          /\ UNCHANGED <<runRef, phase, running, results, speedScale, error,
                         durationMs, closureRunning, runPc, startCalls>>
  /\ OrchFrame

\* onProgress of measureDownload and measureUpload
OnSpeedProgress(r, which, mbps, fraction) ==
  /\ runPc[r] = which
  /\ actor' = r
  /\ event' = "progress"
  /\ IF Stale(r) THEN Discard(r, runPc[r])
     ELSE /\ liveValue' = mbps
          /\ speedScale' = adjustSpeedScale(speedScale, mbps)
          /\ progress' = [progress EXCEPT ![which] = fraction]
          /\ UNCHANGED <<runRef, phase, running, results, error, durationMs,
                         closureRunning, runPc, startCalls>>
  /\ OrchFrame

\* faulty variant: the download phase is skipped
AfterPing_Skip == "upload"

\* the phase entered after measurePing / measureDownload returned
AfterPing == "download"

AfterDownload == "upload"

\* await measurePing(...) returned
PingResolved(r, ping) ==
  /\ runPc[r] = "ping"
  /\ actor' = r
  /\ event' = "resolved"
  /\ IF Stale(r) THEN Discard(r, "done")
     ELSE /\ results' = [results EXCEPT !.ping = Some(ping.average),
                                     !.jitter = Some(ping.jitter)]
          /\ progress' = [progress EXCEPT !.ping = FracOne]
          /\ liveValue' = ping.average
          /\ phase' = AfterPing
          /\ runPc' = [runPc EXCEPT ![r] = AfterPing]
          /\ UNCHANGED <<runRef, running, speedScale, error, durationMs,
                         closureRunning, startCalls>>
  /\ OrchFrame

\* await measureDownload(...) returned
DownloadResolved(r, mbps) ==
  /\ runPc[r] = "download"
  /\ actor' = r
  /\ event' = "resolved"
  /\ IF Stale(r) THEN Discard(r, "done")
     ELSE /\ results' = [results EXCEPT !.download = Some(mbps)]
          /\ progress' = [progress EXCEPT !.download = FracOne]
          /\ liveValue' = mbps
          /\ phase' = AfterDownload
          /\ runPc' = [runPc EXCEPT ![r] = AfterDownload]
          /\ UNCHANGED <<runRef, running, speedScale, error, durationMs,
                         closureRunning, startCalls>>
  /\ OrchFrame

\* await measureUpload(...) returned; the finally block clears `running`
UploadResolved(r, mbps, elapsed) ==
  /\ runPc[r] = "upload"
  /\ actor' = r
  /\ event' = "resolved"
  /\ IF Stale(r) THEN Discard(r, "done")
     ELSE /\ results' = [results EXCEPT !.upload = Some(mbps)]
          /\ progress' = [progress EXCEPT !.upload = FracOne]
          /\ liveValue' = mbps
          /\ phase' = "complete"
          /\ durationMs' = elapsed
          /\ running' = FALSE
          /\ runPc' = [runPc EXCEPT ![r] = "done"]
          /\ UNCHANGED <<runRef, speedScale, error, closureRunning, startCalls>>
  /\ OrchFrame

\* faulty variant: the catch block records the message and leaves the phase alone
Catch_NoPhase(r, err) ==
  /\ runPc[r] \in ActivePhases
  /\ actor' = r
  /\ event' = "threw"
  /\ IF Stale(r) THEN Discard(r, "done")
     ELSE /\ error' = Some(ErrorMessage(err))
          /\ running' = FALSE
          /\ runPc' = [runPc EXCEPT ![r] = "done"]
          /\ UNCHANGED <<runRef, phase, results, progress, liveValue, speedScale,
                         durationMs, closureRunning, startCalls>>
  /\ OrchFrame

\* catch (err) { ... } finally { ... } of a run whose measurement threw
Catch(r, err) ==
  /\ runPc[r] \in ActivePhases
  /\ actor' = r
  /\ event' = "threw"
  /\ IF Stale(r) THEN Discard(r, "done")
     ELSE /\ error' = Some(ErrorMessage(err))
          /\ phase' = "error"
          /\ running' = FALSE
          /\ runPc' = [runPc EXCEPT ![r] = "done"]
          /\ UNCHANGED <<runRef, results, progress, liveValue, speedScale,
                         durationMs, closureRunning, startCalls>>
  /\ OrchFrame

RunStep ==
  \E r \in Runs :
    \/ \E args \in PingProgressArgs : OnPingProgress(r, args)
    \/ \E ping \in PingResults : PingResolved(r, ping)
    \/ \E w \in {"download", "upload"}, m \in MbpsValues, f \in Fractions :
         OnSpeedProgress(r, w, m, f)
    \/ \E m \in MbpsValues : DownloadResolved(r, m)
    \/ \E m \in MbpsValues, e \in ElapsedValues : UploadResolved(r, m, e)
    \/ \E err \in ThrownValues : Catch(r, err)

---------------------------------------------------------------------------
(* measureDownload: operations                                             *)

\* groups of variables, for the frames below
dCfg == <<dDuration, dDurationMs, dRemoteTarget, dUrlBlank>>

dMain == <<dPc, dResult>>

dData == <<dTotalBytes, dProgress, wChunk>>

dNet == <<dChunks, dDelivered, dRemoteKept, dLocalFault>>

dErr == <<dCaught, dSwallowed>>

\* measureDownload up to its first await: the timer is set and every worker
\* registers its controller and sends its first request
DlStart(durationArg, remoteUrl) ==
  /\ dPc = "init"
  /\ dPc' = "running"
  /\ dDuration' = ClampDuration(durationArg)
  /\ dDurationMs' = durationArg
  /\ dRemoteTarget' = RemoteTarget(remoteUrl)
  /\ dUrlBlank' = (remoteUrl \in BlankUrls)
  /\ dTimer' = "armed"
  /\ dControllers' = Workers
  /\ wPc' = [w \in Workers |->
               IF RemoteTarget(remoteUrl) # Null THEN "remoteFetch" ELSE "localFetch"]
  /\ wFetches' = [w \in Workers |->
               IF RemoteTarget(remoteUrl) # Null THEN <<"remote">> ELSE <<"local">>]
  /\ UNCHANGED <<dNow, dStop, dAborted, dRejection, dResult, dData, dNet,
                 dObserver, dErr>>
  /\ DlFrame

\* performance.now() advances
DlTick(ms) ==
  /\ dPc = "running"
  /\ ~DlMainReady
  /\ dNow + ms <= MaxClock
  /\ dNow' = dNow + ms
  /\ UNCHANGED <<dCfg, dMain, dTimer, dStop, dAborted, dControllers, dRejection,
                 dData, dNet, wPc, wFetches, dObserver, dErr>>
  /\ DlFrame

\* faulty variant: the timer sets the flag and aborts nothing
DlTimerFires_NoAbort ==
  /\ dTimer = "armed"
  /\ dNow >= dDuration
  /\ ~DlQueued
  /\ dTimer' = "fired"
  /\ dStop' = TRUE
  /\ UNCHANGED <<dCfg, dMain, dNow, dAborted, dControllers, dRejection, dData, dNet,
                 wPc, wFetches, dObserver, dErr>>
  /\ DlFrame

\* the setTimeout callback of measureDownload
DlTimerFires ==
  /\ dTimer = "armed"
  /\ dNow >= dDuration
  /\ ~DlQueued
  /\ dTimer' = "fired"
  /\ dStop' = TRUE
  /\ dAborted' = dAborted \cup dControllers
  /\ UNCHANGED <<dCfg, dMain, dNow, dControllers, dRejection, dData, dNet, wPc,
                 wFetches, dObserver, dErr>>
  /\ DlFrame

\* runWorker returns: its finally block unregisters the controller
WorkerReturns(w) ==
  /\ wPc' = [wPc EXCEPT ![w] = "returned"]
  /\ dControllers' = dControllers \ {w}
  /\ UNCHANGED <<dStop, dAborted, dRejection, dErr>>

\* runWorker goes on to await at pc
WorkerAwaits(w, pc) ==
  /\ wPc' = [wPc EXCEPT ![w] = pc]
  /\ UNCHANGED <<dControllers, dStop, dAborted, dRejection, dErr>>

\* faulty variant: the catch block swallows every error
WorkerCatch_Swallow(w, err) ==
  /\ dCaught' = IF dStop THEN dCaught ELSE Some(<<w, err>>)
  /\ dSwallowed' = (dSwallowed \/ dStop)
  /\ wPc' = [wPc EXCEPT ![w] = "returned"]
  /\ dControllers' = dControllers \ {w}
  /\ UNCHANGED <<dStop, dAborted, dRejection>>

\* the catch and finally blocks of runWorker for an error that is no AbortError
WorkerCatch(w, err) ==
  /\ dCaught' = IF dStop THEN dCaught ELSE Some(<<w, err>>)
  /\ dSwallowed' = (dSwallowed \/ dStop)
  /\ dControllers' = dControllers \ {w}
  /\ IF ~dStop
       THEN /\ dStop' = TRUE
            /\ dAborted' = dAborted \cup dControllers
            /\ wPc' = [wPc EXCEPT ![w] = "threw"]
            /\ dRejection' = IF dRejection = Null THEN Some(err) ELSE dRejection
       ELSE /\ wPc' = [wPc EXCEPT ![w] = "returned"]
            /\ UNCHANGED <<dStop, dAborted, dRejection>>

\* after getReader(): while (!stop) { await reader.read() ... }
EnterReadLoop(w) == IF dStop THEN WorkerReturns(w) ELSE WorkerAwaits(w, "reading")

\* faulty variant: a response with a body is returned whatever its status
RemoteSettled_AnyStatus(w, outcome) ==
  /\ wPc[w] = "remoteFetch"
  /\ ~DlQueued
  /\ (outcome = "abort") => (w \in dAborted)
  /\ (w \in dAborted) => (outcome \in {"abort", "error"})
  /\ dRemoteKept' = (dRemoteKept \/ outcome \in {"ok", "abort"})
  /\ CASE outcome \in {"ok", "bad"} ->
            /\ EnterReadLoop(w)
            /\ UNCHANGED wFetches
       [] outcome = "error" ->
            /\ WorkerAwaits(w, "localFetch")
            /\ wFetches' = [wFetches EXCEPT ![w] = Append(@, "local")]
       [] outcome = "abort" ->
            /\ WorkerReturns(w)
            /\ UNCHANGED wFetches
  /\ UNCHANGED <<dCfg, dMain, dNow, dTimer, dData, dChunks, dDelivered, dLocalFault,
                 dObserver>>
  /\ DlFrame

\* openDownloadStream: the remote fetch settles.  "ok": a 2xx response with a
\* body; "bad": another status or no body; "error": a rejection that is no
\* AbortError; "abort": an AbortError
RemoteSettled(w, outcome) ==
  /\ wPc[w] = "remoteFetch"
  /\ ~DlQueued
  /\ (outcome = "abort") => (w \in dAborted)
  /\ (w \in dAborted) => (outcome \in {"abort", "error"})
  /\ dRemoteKept' = (dRemoteKept \/ outcome \in {"ok", "abort"})
  /\ CASE outcome = "ok" ->
            /\ EnterReadLoop(w)
            /\ UNCHANGED wFetches
       [] outcome \in {"bad", "error"} ->
            \* falls through to the fetch of the local endpoint
            /\ WorkerAwaits(w, "localFetch")
            /\ wFetches' = [wFetches EXCEPT ![w] = Append(@, "local")]
       [] outcome = "abort" ->
            /\ WorkerReturns(w)
            /\ UNCHANGED wFetches
  /\ UNCHANGED <<dCfg, dMain, dNow, dTimer, dData, dChunks, dDelivered, dLocalFault,
                 dObserver>>
  /\ DlFrame

\* openDownloadStream: the fetch of the local endpoint settles.  "nobody": a
\* 2xx response without a body
LocalSettled(w, outcome) ==
  /\ wPc[w] = "localFetch"
  /\ ~DlQueued
  /\ (outcome = "abort") => (w \in dAborted)
  /\ (w \in dAborted) => (outcome \in {"abort", "error"})
  /\ CASE outcome = "ok" -> EnterReadLoop(w)
       [] outcome = "bad" -> WorkerCatch(w, "Download failed with status 500")
       [] outcome = "nobody" -> WorkerCatch(w, "Download stream unavailable")
       [] outcome = "error" -> \E err \in FetchErrors : WorkerCatch(w, err)
       [] outcome = "abort" -> WorkerReturns(w)
  /\ dLocalFault' = (dLocalFault \/ (outcome \in {"bad", "nobody", "error"} /\ w \notin dAborted))
  /\ UNCHANGED <<dCfg, dMain, dNow, dTimer, dData, dChunks, dDelivered, dRemoteKept,
                 dObserver, wFetches>>
  /\ DlFrame

\* reader.read() resolves with a chunk; the continuation of the worker is queued
ChunkArrives(w, size) ==
  /\ wPc[w] = "reading"
  /\ w \notin dAborted
  /\ ~DlQueued
  /\ dChunks < MaxChunks
  /\ dChunks' = dChunks + 1
  /\ dDelivered' = dDelivered + size
  /\ WorkerAwaits(w, "gotChunk")
  /\ wChunk' = [wChunk EXCEPT ![w] = size]
  /\ dLocalFault' = (dLocalFault \/ (StreamOf(w) = "local" /\ size = 0))
  /\ UNCHANGED <<dCfg, dMain, dNow, dTimer, dTotalBytes, dProgress, dRemoteKept,
                 dObserver, wFetches>>
  /\ DlFrame

\* faulty variant: a worker whose stream ends before the deadline opens another
StreamEnds_Reopens(w) ==
  /\ wPc[w] = "reading"
  /\ w \notin dAborted
  /\ ~DlQueued
  /\ IF ~dStop /\ dNow < dDuration
       THEN /\ WorkerAwaits(w, "localFetch")
            /\ wFetches' = [wFetches EXCEPT ![w] = Append(@, "local")]
       ELSE /\ WorkerReturns(w)
            /\ UNCHANGED wFetches
  /\ dLocalFault' = (dLocalFault \/ StreamOf(w) = "local")
  /\ UNCHANGED <<dCfg, dMain, dNow, dTimer, dData, dChunks, dDelivered, dRemoteKept,
                 dObserver>>
  /\ DlFrame

\* reader.read() resolves with done: the loop ends and the worker returns
StreamEnds(w) ==
  /\ wPc[w] = "reading"
  /\ w \notin dAborted
  /\ ~DlQueued
  /\ WorkerReturns(w)
  /\ dLocalFault' = (dLocalFault \/ StreamOf(w) = "local")
  /\ UNCHANGED <<dCfg, dMain, dNow, dTimer, dData, dChunks, dDelivered, dRemoteKept,
                 dObserver, wFetches>>
  /\ DlFrame

\* reader.read() rejects: with an AbortError, which only an aborted signal
\* raises, or with another error
ReadRejects(w, abortError) ==
  /\ wPc[w] = "reading"
  /\ ~DlQueued
  /\ abortError => w \in dAborted
  /\ IF abortError
       THEN WorkerReturns(w)
       ELSE \E err \in FetchErrors : WorkerCatch(w, err)
  /\ dLocalFault' = (dLocalFault \/ (~abortError /\ w \notin dAborted /\ StreamOf(w) = "local"))
  /\ UNCHANGED <<dCfg, dMain, dNow, dTimer, dData, dChunks, dDelivered, dRemoteKept,
                 dObserver, wFetches>>
  /\ DlFrame

\* faulty variant: the worker that sees the deadline pass stops without aborting the
\* other workers
ConsumeChunk_NoPeerAbort(w) ==
  /\ wPc[w] = "gotChunk"
  /\ dTotalBytes' = dTotalBytes + wChunk[w]
  /\ dProgress' = EmitProgress(dProgress, dTotalBytes + wChunk[w], dNow, dDuration)
  /\ wChunk' = [wChunk EXCEPT ![w] = 0]
  /\ IF ~dStop /\ dNow >= dDuration
       THEN /\ dStop' = TRUE
            /\ wPc' = [wPc EXCEPT ![w] = "cancelling"]
            /\ dObserver' = w
            /\ UNCHANGED <<dAborted, dControllers, dRejection, dErr>>
       ELSE /\ EnterReadLoop(w)
            /\ UNCHANGED dObserver
  /\ UNCHANGED <<dCfg, dMain, dNow, dTimer, dNet, wFetches>>
  /\ DlFrame

\* the worker resumes with the chunk of its resolved read
ConsumeChunk(w) ==
  /\ wPc[w] = "gotChunk"
  /\ dTotalBytes' = dTotalBytes + wChunk[w]
  /\ dProgress' = EmitProgress(dProgress, dTotalBytes + wChunk[w], dNow, dDuration)
  /\ wChunk' = [wChunk EXCEPT ![w] = 0]
  /\ IF ~dStop /\ dNow >= dDuration
       THEN \* the deadline has passed: stop, abort the others, cancel the reader
            /\ dStop' = TRUE
            /\ dAborted' = dAborted \cup (dControllers \ {w})
            /\ wPc' = [wPc EXCEPT ![w] = "cancelling"]
            /\ dObserver' = w
            /\ UNCHANGED <<dControllers, dRejection, dErr>>
       ELSE \* back to the loop condition
            /\ EnterReadLoop(w)
            /\ UNCHANGED dObserver
  /\ UNCHANGED <<dCfg, dMain, dNow, dTimer, dNet, wFetches>>
  /\ DlFrame

\* await reader.cancel().catch(() => controller.abort()) settles; the loop is
\* left and the worker returns
CancelSettled(w, rejected) ==
  /\ wPc[w] = "cancelling"
  /\ ~DlQueued
  /\ wPc' = [wPc EXCEPT ![w] = "returned"]
  /\ dControllers' = dControllers \ {w}
  /\ dAborted' = IF rejected THEN dAborted \cup {w} ELSE dAborted
  /\ UNCHANGED <<dCfg, dMain, dNow, dTimer, dStop, dRejection, dData, dNet,
                 dObserver, dErr, wFetches>>
  /\ DlFrame

\* Promise.all settled: the finally block, then the result or the rethrow
DlFinish ==
  /\ DlMainReady
  /\ dTimer' = IF dTimer = "armed" THEN "cleared" ELSE dTimer
  /\ dAborted' = dAborted \cup dControllers
  /\ dControllers' = {}
  /\ IF dRejection # Null
       THEN /\ dPc' = "threw"
            /\ UNCHANGED <<dResult, dProgress>>
       ELSE LET elapsedMs == Max(dNow - 0, dDuration) IN
            /\ dPc' = "returned"
            /\ dResult' = Some(Throughput(dTotalBytes, elapsedMs))
            /\ dProgress' = Report(dTotalBytes, elapsedMs, FracOne)
  /\ UNCHANGED <<dCfg, dNow, dStop, dRejection, dTotalBytes, wChunk, dNet, wPc,
                 wFetches, dObserver, dErr>>
  /\ DlFrame

DlWorkerStep(w) ==
  \/ \E o \in {"ok", "bad", "error", "abort"} : RemoteSettled(w, o)
  \/ \E o \in {"ok", "bad", "nobody", "error", "abort"} : LocalSettled(w, o)
  \/ \E size \in ChunkSizes : ChunkArrives(w, size)
  \/ StreamEnds(w)
  \/ \E abortError \in BOOLEAN : ReadRejects(w, abortError)
  \/ ConsumeChunk(w)
  \/ \E rejected \in BOOLEAN : CancelSettled(w, rejected)

---------------------------------------------------------------------------
(* measureUpload: operations                                               *)

\* groups of variables, for the frames below
uCfg == <<uDuration, uDurationMs, remoteEndpoint, uUrlBlank>>

uMain == <<uPc, uResult, uSpawned>>

uClock == <<uNow, uTimer>>

uBytes == <<totalUploaded, uProgress, lastLoaded>>

uGhost == <<xSends, xFailed, xFellBack, uLocalFailed, uCreditFailed>>

uAcct == <<uCompleted, uCreditOk, uCreditAborted>>

\* the request of every worker in ws is over: its mode and lastLoaded are gone
Dropped(f, ws, none) == [w \in Workers |-> IF w \in ws THEN none ELSE f[w]]

\* complete(): the promise of the worker resolves
complete(w) == xPc' = [xPc EXCEPT ![w] = "resolved"]

\* faulty variant: the fallback leaves the preference alone
fallbackToLocal_KeepsFlag(w) ==
  /\ xPc' = [xPc EXCEPT ![w] = "retry"]
  /\ xFellBack' = xFellBack \cup {w}
  /\ UNCHANGED preferRemoteUpload

\* fallbackToLocal() when neither settled nor stop holds: it returns true
fallbackToLocal(w) ==
  /\ preferRemoteUpload' = FALSE
  /\ xPc' = [xPc EXCEPT ![w] = "retry"]
  /\ xFellBack' = xFellBack \cup {w}

\* what onload (status not 2xx/3xx), onerror and the catch around send() do
\* after uploads.delete(xhr)
SendFailed(w, mode, err) ==
  /\ xFailed' = IF mode = "remote" THEN xFailed \cup {w} ELSE xFailed
  /\ uLocalFailed' = (uLocalFailed \/ mode = "local")
  /\ uCreditFailed' = uCreditFailed + lastLoaded[w]
  /\ IF mode = "remote" /\ ~settled(w) /\ ~uStop
       THEN /\ fallbackToLocal(w)
            /\ UNCHANGED <<uStop, uRejection>>
       ELSE /\ UNCHANGED <<preferRemoteUpload, xFellBack>>
            /\ IF ~uStop
                 THEN /\ uStop' = TRUE
                      /\ xPc' = [xPc EXCEPT ![w] = "rejected"]
                      /\ uRejection' = IF uRejection = Null THEN Some(err) ELSE uRejection
                 ELSE /\ complete(w)
                      /\ UNCHANGED <<uStop, uRejection>>

\* dispatchUpload(mode); throws: xhr.send() throws
dispatchUpload(w, mode, throws) ==
  IF settled(w) \/ uStop
    THEN /\ complete(w)
         /\ UNCHANGED <<xMode, uploads, preferRemoteUpload, uStop, uRejection, uGhost>>
  ELSE IF mode = "remote" /\ remoteEndpoint = Null
    THEN /\ xPc' = [xPc EXCEPT ![w] = "retry"]
         /\ UNCHANGED <<xMode, uploads, preferRemoteUpload, uStop, uRejection, uGhost>>
  ELSE /\ xSends' = [xSends EXCEPT ![w] = Append(@, mode)]
       /\ IF throws
            THEN \* uploads.add(xhr), then uploads.delete(xhr) in the catch block
                 /\ SendFailed(w, mode, <<"send failed">>)
                 /\ UNCHANGED <<xMode, uploads>>
            ELSE /\ xPc' = [xPc EXCEPT ![w] = "inflight"]
                 /\ xMode' = [xMode EXCEPT ![w] = mode]
                 /\ uploads' = uploads \cup {<<w, Len(xSends[w]) + 1>>}
                 /\ UNCHANGED <<preferRemoteUpload, uStop, uRejection, xFailed, xFellBack,
                                uLocalFailed, uCreditFailed>>

\* faulty variant: every worker keeps a preference of its own
NextMode_PerWorker(w) ==
  IF remoteEndpoint # Null /\ w \notin xFellBack THEN "remote" ELSE "local"

\* preferRemoteUpload ? 'remote' : 'local'
NextMode(w) == IF preferRemoteUpload THEN "remote" ELSE "local"

\* faulty variant: scheduleNext() and the dispatch it starts ignore the stop flag
scheduleNext_IgnoresStop(w, throws) ==
  /\ xSends' = [xSends EXCEPT ![w] = Append(@, NextMode(w))]
  /\ xPc' = [xPc EXCEPT ![w] = "inflight"]
  /\ xMode' = [xMode EXCEPT ![w] = NextMode(w)]
  /\ uploads' = uploads \cup {<<w, Len(xSends[w]) + 1>>}
  /\ UNCHANGED <<preferRemoteUpload, uStop, uRejection, xFailed, xFellBack,
                 uLocalFailed, uCreditFailed>>

\* scheduleNext()
scheduleNext(w, throws) ==
  IF settled(w) \/ uStop
    THEN /\ complete(w)
         /\ UNCHANGED <<xMode, uploads, preferRemoteUpload, uStop, uRejection, uGhost>>
    ELSE dispatchUpload(w, NextMode(w), throws)

\* measureUpload up to the first runWorker() call
UlStart(durationArg, remoteUrl) ==
  /\ uPc = "init"
  /\ uPc' = "spawning"
  /\ uDuration' = ClampDuration(durationArg)
  /\ uDurationMs' = durationArg
  /\ remoteEndpoint' = RemoteTarget(remoteUrl)
  /\ uUrlBlank' = (remoteUrl \in BlankUrls)
  /\ preferRemoteUpload' = (RemoteTarget(remoteUrl) # Null)
  /\ uTimer' = "armed"
  /\ UNCHANGED <<uNow, uStop, uploads, uRejection, uResult, uSpawned, uBytes, xPc,
                 xMode, uGhost, uAcct>>
  /\ UlFrame

\* runWorker(): the executor of the promise calls scheduleNext()
runWorker(w, throws) ==
  /\ uPc = "spawning"
  /\ w = uSpawned + 1
  /\ uSpawned' = w
  /\ uPc' = IF w = Concurrency THEN "running" ELSE "spawning"
  /\ scheduleNext(w, throws)
  /\ UNCHANGED <<uCfg, uClock, uResult, uBytes, uAcct>>
  /\ UlFrame

\* performance.now() advances
UlTick(ms) ==
  /\ uPc = "running"
  /\ ~UlBusy
  /\ uNow + ms <= MaxClock
  /\ uNow' = uNow + ms
  /\ UNCHANGED <<uCfg, uMain, uTimer, uStop, uploads, preferRemoteUpload, uRejection,
                 uBytes, xPc, xMode, uGhost, uAcct>>
  /\ UlFrame

\* xhr.abort() on every request in flight; each runs onabort:
\* uploads.delete(xhr); complete()
AbortAll ==
  /\ xPc' = [w \in Workers |-> IF w \in Owners(uploads) THEN "resolved" ELSE xPc[w]]
  /\ uploads' = {}
  /\ xMode' = Dropped(xMode, Owners(uploads), "none")
  /\ lastLoaded' = Dropped(lastLoaded, Owners(uploads), 0)
  /\ uCreditAborted' = uCreditAborted + LoadedInFlight

\* faulty variant: the timer sets the flag and aborts nothing
UlTimerFires_NoAbort ==
  /\ uTimer = "armed"
  /\ uPc = "running"
  /\ uNow >= uDuration
  /\ ~UlBusy
  /\ uTimer' = "fired"
  /\ uStop' = TRUE
  /\ UNCHANGED <<uCfg, uMain, uNow, preferRemoteUpload, uRejection, uBytes, uploads,
                 xPc, xMode, uGhost, uAcct>>
  /\ UlFrame

\* the setTimeout callback of measureUpload
UlTimerFires ==
  /\ uTimer = "armed"
  /\ uPc = "running"
  /\ uNow >= uDuration
  /\ ~UlBusy
  /\ uTimer' = "fired"
  /\ uStop' = TRUE
  /\ AbortAll
  /\ UNCHANGED <<uCfg, uMain, uNow, preferRemoteUpload, uRejection, totalUploaded,
                 uProgress, uGhost, uCompleted, uCreditOk>>
  /\ UlFrame

\* setTimeout(scheduleNext, 0) runs
NextTimeout(w, throws) ==
  /\ xPc[w] = "next"
  /\ ~UlBusy
  /\ uStop \/ SendCount < MaxSends
  /\ scheduleNext(w, throws)
  /\ UNCHANGED <<uCfg, uMain, uClock, uBytes, uAcct>>
  /\ UlFrame

\* setTimeout(() => dispatchUpload('local'), 0) runs
RetryTimeout(w, throws) ==
  /\ xPc[w] = "retry"
  /\ ~UlBusy
  /\ uStop \/ SendCount < MaxSends
  /\ dispatchUpload(w, "local", throws)
  /\ UNCHANGED <<uCfg, uMain, uClock, uBytes, uAcct>>
  /\ UlFrame

\* faulty variant: a progress event adds event.loaded, not the difference
OnProgress_AddsLoaded(w, loaded, lengthComputable) ==
  /\ xPc[w] = "inflight"
  /\ ~UlBusy
  /\ loaded >= lastLoaded[w]
  /\ IF ~lengthComputable \/ uStop
       THEN UNCHANGED <<uStop, uploads, uBytes, xPc, xMode, uCreditAborted>>
       ELSE LET delta == loaded - lastLoaded[w]
                total == totalUploaded + (IF delta > 0 THEN loaded ELSE 0)
                stopNow == uNow >= uDuration
            IN /\ lastLoaded' = [lastLoaded EXCEPT ![w] = IF stopNow THEN 0
                                                          ELSE IF delta > 0 THEN loaded
                                                          ELSE @]
               /\ xMode' = IF stopNow THEN [xMode EXCEPT ![w] = "none"] ELSE xMode
               /\ totalUploaded' = total
               /\ uProgress' = IF delta > 0
                                 THEN EmitProgress(uProgress, total, uNow, uDuration)
                                 ELSE uProgress
               /\ uStop' = stopNow
               \* xhr.abort() runs onabort: uploads.delete(xhr); complete()
               /\ uploads' = IF stopNow THEN uploads \ {Request(w)} ELSE uploads
               /\ xPc' = IF stopNow THEN [xPc EXCEPT ![w] = "resolved"] ELSE xPc
               /\ uCreditAborted' = IF stopNow
                                      THEN uCreditAborted + lastLoaded[w] + Max(delta, 0)
                                      ELSE uCreditAborted
  /\ UNCHANGED <<uCfg, uMain, uClock, preferRemoteUpload, uRejection, uGhost,
                 uCompleted, uCreditOk>>
  /\ UlFrame

\* xhr.upload.onprogress
OnProgress(w, loaded, lengthComputable) ==
  /\ xPc[w] = "inflight"
  /\ ~UlBusy
  /\ loaded >= lastLoaded[w]
  /\ IF ~lengthComputable \/ uStop
       THEN UNCHANGED <<uStop, uploads, uBytes, xPc, xMode, uCreditAborted>>
       ELSE LET delta == loaded - lastLoaded[w]
                total == totalUploaded + Max(delta, 0)
                stopNow == uNow >= uDuration
            IN /\ lastLoaded' = [lastLoaded EXCEPT ![w] = IF stopNow THEN 0
                                                          ELSE IF delta > 0 THEN loaded
                                                          ELSE @]
               /\ xMode' = IF stopNow THEN [xMode EXCEPT ![w] = "none"] ELSE xMode
               /\ totalUploaded' = total
               /\ uProgress' = IF delta > 0
                                 THEN EmitProgress(uProgress, total, uNow, uDuration)
                                 ELSE uProgress
               /\ uStop' = stopNow
               \* xhr.abort() runs onabort: uploads.delete(xhr); complete()
               /\ uploads' = IF stopNow THEN uploads \ {Request(w)} ELSE uploads
               /\ xPc' = IF stopNow THEN [xPc EXCEPT ![w] = "resolved"] ELSE xPc
               /\ uCreditAborted' = IF stopNow
                                      THEN uCreditAborted + lastLoaded[w] + Max(delta, 0)
                                      ELSE uCreditAborted
  /\ UNCHANGED <<uCfg, uMain, uClock, preferRemoteUpload, uRejection, uGhost,
                 uCompleted, uCreditOk>>
  /\ UlFrame

\* faulty variant: the remainder is added whether or not stop is set
OnLoad_CreditAlways(w, status) ==
  /\ xPc[w] = "inflight"
  /\ ~UlBusy
  /\ uploads' = uploads \ {Request(w)}
  /\ IF StatusOk(status)
       THEN LET remaining == chunkBytes - lastLoaded[w]
                credit == remaining > 0
                total == IF credit THEN totalUploaded + remaining ELSE totalUploaded
            IN /\ totalUploaded' = total
               /\ uProgress' = IF credit
                                 THEN EmitProgress(uProgress, total, uNow, uDuration)
                                 ELSE uProgress
               /\ uCompleted' = uCompleted + 1
               /\ uCreditOk' = uCreditOk + lastLoaded[w] + (total - totalUploaded)
               /\ IF ~uStop /\ uNow < uDuration
                    THEN xPc' = [xPc EXCEPT ![w] = "next"]
                    ELSE complete(w)
               /\ UNCHANGED <<preferRemoteUpload, uStop, uRejection, xFailed, xFellBack,
                              uLocalFailed, uCreditFailed>>
       ELSE /\ SendFailed(w, xMode[w], <<"Upload failed with status", status>>)
            /\ UNCHANGED <<totalUploaded, uProgress, uCompleted, uCreditOk>>
  /\ xMode' = [xMode EXCEPT ![w] = "none"]
  /\ lastLoaded' = [lastLoaded EXCEPT ![w] = 0]
  /\ UNCHANGED <<uCfg, uMain, uClock, xSends, uCreditAborted>>
  /\ UlFrame

\* xhr.onload
OnLoad(w, status) ==
  /\ xPc[w] = "inflight"
  /\ ~UlBusy
  /\ uploads' = uploads \ {Request(w)}
  /\ IF StatusOk(status)
       THEN LET remaining == chunkBytes - lastLoaded[w]
                credit == remaining > 0 /\ ~uStop
                total == IF credit THEN totalUploaded + remaining ELSE totalUploaded
            IN /\ totalUploaded' = total
               /\ uProgress' = IF credit
                                 THEN EmitProgress(uProgress, total, uNow, uDuration)
                                 ELSE uProgress
               /\ uCompleted' = uCompleted + 1
               /\ uCreditOk' = uCreditOk + lastLoaded[w] + (total - totalUploaded)
               /\ IF ~uStop /\ uNow < uDuration
                    THEN xPc' = [xPc EXCEPT ![w] = "next"]
                    ELSE complete(w)
               /\ UNCHANGED <<preferRemoteUpload, uStop, uRejection, xFailed, xFellBack,
                              uLocalFailed, uCreditFailed>>
       ELSE /\ SendFailed(w, xMode[w], <<"Upload failed with status", status>>)
            /\ UNCHANGED <<totalUploaded, uProgress, uCompleted, uCreditOk>>
  /\ xMode' = [xMode EXCEPT ![w] = "none"]
  /\ lastLoaded' = [lastLoaded EXCEPT ![w] = 0]
  /\ UNCHANGED <<uCfg, uMain, uClock, xSends, uCreditAborted>>
  /\ UlFrame

\* faulty variant: the bytes a failed request had reported are taken back
OnError_Refunds(w) ==
  /\ xPc[w] = "inflight"
  /\ ~UlBusy
  /\ uploads' = uploads \ {Request(w)}
  /\ SendFailed(w, xMode[w], <<"Upload request failed">>)
  /\ xMode' = [xMode EXCEPT ![w] = "none"]
  /\ lastLoaded' = [lastLoaded EXCEPT ![w] = 0]
  /\ totalUploaded' = totalUploaded - lastLoaded[w]
  /\ UNCHANGED <<uCfg, uMain, uClock, uProgress, xSends, uAcct>>
  /\ UlFrame

\* xhr.onerror
OnError(w) ==
  /\ xPc[w] = "inflight"
  /\ ~UlBusy
  /\ uploads' = uploads \ {Request(w)}
  /\ SendFailed(w, xMode[w], <<"Upload request failed">>)
  /\ xMode' = [xMode EXCEPT ![w] = "none"]
  /\ lastLoaded' = [lastLoaded EXCEPT ![w] = 0]
  /\ UNCHANGED <<uCfg, uMain, uClock, totalUploaded, uProgress, xSends, uAcct>>
  /\ UlFrame

\* faulty variant: the finally block clears the timer and aborts nothing
UlFinish_NoAbort ==
  /\ UlMainReady
  /\ uTimer' = IF uTimer = "armed" THEN "cleared" ELSE uTimer
  /\ UNCHANGED <<xPc, uploads, xMode, lastLoaded, uCreditAborted>>
  /\ IF uRejection # Null
       THEN /\ uPc' = "threw"
            /\ UNCHANGED <<uResult, uProgress>>
       ELSE LET elapsedMs == Max(uNow - 0, uDuration) IN
            /\ uPc' = "returned"
            /\ uResult' = Some(Throughput(totalUploaded, elapsedMs))
            /\ uProgress' = Report(totalUploaded, elapsedMs, FracOne)
  /\ UNCHANGED <<uCfg, uNow, uSpawned, uStop, preferRemoteUpload, uRejection,
                 totalUploaded, uGhost, uCompleted, uCreditOk>>
  /\ UlFrame

\* Promise.all settled: the finally block, then the result or the rethrow
UlFinish ==
  /\ UlMainReady
  /\ uTimer' = IF uTimer = "armed" THEN "cleared" ELSE uTimer
  /\ AbortAll
  /\ IF uRejection # Null
       THEN /\ uPc' = "threw"
            /\ UNCHANGED <<uResult, uProgress>>
       ELSE LET elapsedMs == Max(uNow - 0, uDuration) IN
            /\ uPc' = "returned"
            /\ uResult' = Some(Throughput(totalUploaded, elapsedMs))
            /\ uProgress' = Report(totalUploaded, elapsedMs, FracOne)
  /\ UNCHANGED <<uCfg, uNow, uSpawned, uStop, preferRemoteUpload, uRejection,
                 totalUploaded, uGhost, uCompleted, uCreditOk>>
  /\ UlFrame

UlWorkerStep(w) ==
  \/ \E throws \in BOOLEAN : runWorker(w, throws)
  \/ \E throws \in BOOLEAN : NextTimeout(w, throws)
  \/ \E throws \in BOOLEAN : RetryTimeout(w, throws)
  \/ \E loaded \in 1..chunkBytes, lengthComputable \in BOOLEAN :
       OnProgress(w, loaded, lengthComputable)
  \/ \E status \in StatusInputs : OnLoad(w, status)
  \/ OnError(w)

---------------------------------------------------------------------------
(* measurePing: operations                                                 *)

\* the inner for loop: every request of the round is issued before the await
IssueRound(concurrency) ==
  /\ batch' = [c \in 1..concurrency |-> Pending]
  /\ pIssued' = pIssued + concurrency

\* measurePing up to the first await Promise.all(batch)
PingStart(rounds, concurrency) ==
  /\ pPc = "init"
  /\ pPc' = "awaiting"
  /\ pRounds' = rounds
  /\ pConcurrency' = concurrency
  /\ IssueRound(concurrency)
  /\ UNCHANGED <<pRound, filtered, pCalls, pResult, pRejection>>
  /\ PingFrame

\* faulty variant: completed counts within the round only
RoundCalls_NoOffset(values) ==
  [idx \in 1..Len(values) |-> <<values[idx], (idx - 1) + 1, pRounds * pConcurrency>>]

\* faulty variant: one call for the round, with its last value
RoundCalls_LastOnly(values) ==
  <<<<values[Len(values)], (pRound + 1) * pConcurrency, pRounds * pConcurrency>>>>

\* the onProgress calls of results.forEach
RoundCalls(values) ==
  [idx \in 1..Len(values) |->
     <<values[idx], pRound * pConcurrency + (idx - 1) + 1, pRounds * pConcurrency>>]

\* faulty variant: the await ends with the first request that settles
RoundSettled_Any(b) == \E i \in 1..Len(b) : b[i] # Pending

\* await Promise.all(batch) resolves: every promise of the batch is fulfilled
RoundSettled(b) == \A i \in 1..Len(b) : b[i] # Pending

\* a request of the current round gets a response that is ok or 204; when it is
\* the last of the round, Promise.all resolves and measurePing runs on to the
\* next await or to its return
PingResolves(c, ms, status) ==
  /\ pPc = "awaiting"
  /\ c \in 1..Len(batch)
  /\ batch[c] = Pending
  /\ PingOk(status)
  /\ LET settled_ == [batch EXCEPT ![c] = Done(ms)]
         roundResults == [i \in 1..Len(batch) |-> settled_[i].ms]
     IN IF ~RoundSettled(settled_)
          THEN /\ batch' = settled_
               /\ UNCHANGED <<pPc, pRound, pIssued, filtered, pCalls, pResult>>
          ELSE /\ pCalls' = pCalls \o RoundCalls(roundResults)
               /\ filtered' = filtered \o Retained(roundResults)
               /\ pRound' = pRound + 1
               /\ IF pRound + 1 < pRounds
                    THEN /\ IssueRound(pConcurrency)
                         /\ UNCHANGED <<pPc, pResult>>
                    ELSE /\ pPc' = "returned"
                         /\ pResult' = Some(PingStats(filtered \o Retained(roundResults)))
                         /\ batch' = <<>>
                         /\ UNCHANGED pIssued
  /\ UNCHANGED <<pRounds, pConcurrency, pRejection>>
  /\ PingFrame

\* faulty variant: the failure of a request is recorded and the round goes on
PingFails_GoesOn(c, err) ==
  /\ pPc = "awaiting"
  /\ c \in 1..Len(batch)
  /\ batch[c] = Pending
  /\ \E i \in 1..Len(batch) : i # c /\ batch[i] = Pending
  /\ batch' = [batch EXCEPT ![c] = Failed]
  /\ UNCHANGED <<pPc, pRejection, pRounds, pConcurrency, pRound, pIssued, filtered,
                 pCalls, pResult>>
  /\ PingFrame

\* a request of the current round throws: fetch rejects, or the status is
\* neither ok nor 204; Promise.all rejects and so does measurePing
PingFails(c, err) ==
  /\ pPc = "awaiting"
  /\ c \in 1..Len(batch)
  /\ batch[c] = Pending
  /\ batch' = [batch EXCEPT ![c] = Failed]
  /\ pPc' = "threw"
  /\ pRejection' = Some(err)
  /\ UNCHANGED <<pRounds, pConcurrency, pRound, pIssued, filtered, pCalls, pResult>>
  /\ PingFrame

\* a request settles after measurePing has rejected
PingSettlesLate(c) ==
  /\ pPc = "threw"
  /\ c \in 1..Len(batch)
  /\ batch[c] = Pending
  /\ batch' = [batch EXCEPT ![c] = Late]
  /\ UNCHANGED <<pPc, pRounds, pConcurrency, pRound, pIssued, filtered, pCalls,
                 pResult, pRejection>>
  /\ PingFrame

\* the errors a request throws
PingErrors ==
  {<<"Failed to fetch">>}
    \cup {<<"Ping failed with status", st>> : st \in {x \in PingStatusInputs : ~PingOk(x)}}

---------------------------------------------------------------------------
(* The local download endpoint: GET and the streams                        *)

\* GET of src/unnamed/part_000
GET(rawBytes, rawChunk) ==
  /\ ePc = "idle"
  /\ ePc' = "open"
  /\ eHandler' = "part_000"
  /\ eRawBytes' = rawBytes
  /\ eRawChunk' = rawChunk
  /\ eTotalBytes' = TotalBytes(rawBytes)
  /\ eChunkSize' = ClampChunkSize(ParsePositiveInt(rawChunk))
  /\ eContentLength' = TotalBytes(rawBytes)
  /\ UNCHANGED <<sent, cancelled, ePulls, eLast, eCancelRequested>>
  /\ EndpointFrame

\* GET of src/app/api/download/route.ts: the chunk parameter is not read
RouteGET(rawBytes, rawChunk) ==
  /\ ePc = "idle"
  /\ ePc' = "open"
  /\ eHandler' = "route.ts"
  /\ eRawBytes' = rawBytes
  /\ eRawChunk' = rawChunk
  /\ eTotalBytes' = Some(toInt(rawBytes))
  /\ eChunkSize' = DEFAULT_CHUNK_SIZE
  /\ eContentLength' = Some(toInt(rawBytes))
  /\ UNCHANGED <<sent, cancelled, ePulls, eLast, eCancelRequested>>
  /\ EndpointFrame

\* pull() of makeFixedStream (part_000) and of streamRandomBytes (route.ts)
FixedPull ==
  /\ ePc = "open"
  /\ eTotalBytes # Null
  /\ IF sent >= eTotalBytes[1]
       THEN /\ ePc' = "closed"
            /\ UNCHANGED <<sent, ePulls, eLast>>
       ELSE LET remaining == eTotalBytes[1] - sent
                size == Min(eChunkSize, remaining)
            IN /\ sent' = sent + size
               /\ eLast' = size
               /\ ePulls' = ePulls + 1
               /\ UNCHANGED ePc
  /\ UNCHANGED <<eHandler, eRawBytes, eRawChunk, eTotalBytes, eChunkSize,
                 eContentLength, cancelled, eCancelRequested>>
  /\ EndpointFrame

\* pull() of makeContinuousStream
ContinuousPull ==
  /\ ePc = "open"
  /\ eTotalBytes = Null
  /\ ePulls < MaxPulls
  /\ IF cancelled
       THEN /\ ePc' = "closed"
            /\ UNCHANGED <<ePulls, eLast>>
       ELSE /\ eLast' = eChunkSize
            /\ ePulls' = ePulls + 1
            /\ UNCHANGED ePc
  /\ UNCHANGED <<eHandler, eRawBytes, eRawChunk, eTotalBytes, eChunkSize,
                 eContentLength, sent, cancelled, eCancelRequested>>
  /\ EndpointFrame

\* the client cancels: the stream runs its cancel() (only the continuous
\* stream has one) and is closed; pull() is not called again
Cancel ==
  /\ ePc = "open"
  /\ ePc' = "closed"
  /\ eCancelRequested' = TRUE
  /\ cancelled' = IF eTotalBytes = Null THEN TRUE ELSE cancelled
  /\ UNCHANGED <<eHandler, eRawBytes, eRawChunk, eTotalBytes, eChunkSize,
                 eContentLength, sent, ePulls, eLast>>
  /\ EndpointFrame

---------------------------------------------------------------------------
(* Specifications                                                          *)

vars == <<orchVars, dlVars, ulVars, pingVars, endpointVars>>

Init == OrchInit /\ DlInit /\ UlInit /\ PingInit /\ EndpointInit

\* the orchestrator; startTest is reached through the handler of the current
\* render
Next ==
  \/ StartTest(TRUE)
  \/ Render
  \/ RunStep

\* the orchestrator; startTest may also be reached through a closure of an
\* earlier render
NextStale ==
  \/ StartTest(FALSE)
  \/ Render
  \/ RunStep

Spec == Init /\ [][Next]_vars

SpecStale == Init /\ [][NextStale]_vars

\* one call of measureDownload
DlNext ==
  \/ \E d \in DurationInputs, u \in RemoteUrlInputs : DlStart(d, u)
  \/ \E ms \in Ticks : DlTick(ms)
  \/ DlTimerFires
  \/ \E w \in Workers : DlWorkerStep(w)
  \/ DlFinish

DownloadSpec == Init /\ [][DlNext]_vars

\* what the event loop and the network guarantee to a worker: a queued
\* continuation runs, reader.cancel() settles, and a fetch or a read on an
\* aborted signal rejects.  The specification below asks only that some
\* worker for which one of these is due gets its turn.
DlSettles(w) ==
  \/ ConsumeChunk(w)
  \/ \E rejected \in BOOLEAN : CancelSettled(w, rejected)
  \/ /\ w \in dAborted
     /\ RemoteSettled(w, "abort") \/ LocalSettled(w, "abort") \/ ReadRejects(w, TRUE)

\* one call of measureDownload under these guarantees
DownloadFairSpec ==
  /\ Init
  /\ [][DlNext]_vars
  /\ WF_vars(DlFinish)
  /\ WF_vars(\E w \in Workers : DlSettles(w))

\* one call of measureUpload
UlNext ==
  \/ \E d \in UlDurationInputs, u \in RemoteUrlInputs : UlStart(d, u)
  \/ \E ms \in Ticks : UlTick(ms)
  \/ UlTimerFires
  \/ \E w \in Workers : UlWorkerStep(w)
  \/ UlFinish

UploadSpec == Init /\ [][UlNext]_vars

\* one call of measurePing
PingNext ==
  \/ \E rounds \in RoundsInputs, concurrency \in ConcurrencyInputs :
       PingStart(rounds, concurrency)
  \/ \E c \in Slots, ms \in Latencies, status \in PingStatusInputs :
       PingResolves(c, ms, status)
  \/ \E c \in Slots, err \in PingErrors : PingFails(c, err)
  \/ \E c \in Slots : PingSettlesLate(c)

PingSpec == Init /\ [][PingNext]_vars

\* one call of measureDownload or one call of measureUpload
TransferNext == (uPc = "init" /\ DlNext) \/ (dPc = "init" /\ UlNext)

TransferSpec == Init /\ [][TransferNext]_vars

\* one GET on the local download endpoint and the life of the stream it
\* returns: the consumer pulls chunks and may cancel
EndpointNext ==
  \/ \E rawBytes \in RawBytesInputs, rawChunk \in RawChunkInputs : GET(rawBytes, rawChunk)
  \/ \E rawBytes \in RawBytesInputs, rawChunk \in RawChunkInputs :
       RouteGET(rawBytes, rawChunk)
  \/ FixedPull
  \/ ContinuousPull
  \/ Cancel

EndpointSpec == Init /\ [][EndpointNext]_vars

\* a pending setTimeout callback of a worker runs
UlTimeoutRuns ==
  \E w \in Workers, throws \in BOOLEAN : NextTimeout(w, throws) \/ RetryTimeout(w, throws)

\* the synchronous loop of Array.from creates the next worker
UlSpawns == \E w \in Workers, throws \in BOOLEAN : runWorker(w, throws)

\* measureUpload where the synchronous code runs on, pending timeouts run and
\* the continuation of Promise.all is scheduled
UploadFairSpec ==
  UploadSpec /\ WF_vars(UlFinish) /\ WF_vars(UlTimeoutRuns) /\ WF_vars(UlSpawns)

---------------------------------------------------------------------------
(* Claims about the orchestrator                                           *)

\* C2: once a newer run has allocated a token, a callback or continuation of
\* an older run changes none of phase, results, progress, liveValue,
\* speedScale, error and running.
C2_StaleRunChangesNothing ==
  [][(actor' # 0 /\ actor' # runRef') => UNCHANGED orchState]_vars

\* a superseded run has run into a token check after its measurement ended
C2_Witness ==
  \E r \in Runs : r < runRef /\ actor = r /\ runPc[r] = "done" /\ event = "resolved"

\* C3: an invocation of startTest while the phase is ping, download or upload
\* allocates no token, starts no run and leaves phase, results, progress and
\* error unchanged; at most one run is in flight.
C3_StartWhileActiveIsNoop ==
  /\ [][(startCalls' # startCalls /\ phase \in ActivePhases) =>
          /\ runRef' = runRef
          /\ runPc' = runPc
          /\ UNCHANGED <<phase, results, progress, error>>]_vars
  /\ [](Cardinality({r \in Runs : runPc[r] \in ActivePhases}) <= 1)

\* startTest was invoked during an active phase
C3_Witness == event = "noop" /\ phase \in ActivePhases /\ runPc[runRef] = phase

PhaseMoves ==
  { <<"idle", "ping">>, <<"ping", "download">>, <<"download", "upload">>,
    <<"upload", "complete">>, <<"ping", "error">>, <<"download", "error">>,
    <<"upload", "error">>, <<"complete", "ping">>, <<"error", "ping">> }

\* C4: every change of the phase is one of the moves of the state machine,
\* and the phase goes (back) to ping exactly when a new run is accepted.
C4_PhaseMoves ==
  [][phase' # phase =>
       /\ <<phase, phase'>> \in PhaseMoves
       /\ (phase' = "ping") <=> (runRef' # runRef)]_vars

\* a second run went through all phases after a first one ended
C4_Witness == runRef >= 2 /\ phase = "complete" /\ runPc[1] = "done"

\* the results that a run standing in phase p has not produced yet are null
UnfinishedNull(p, res) ==
  /\ res.upload = Null
  /\ p \in {"ping", "download"} => res.download = Null
  /\ p = "ping" => (res.ping = Null /\ res.jitter = Null)

\* C5: when a measurement of the current run throws, the phase becomes error,
\* a non-empty message is recorded, running is cleared, the results stay as
\* they were (null for the phases not completed), and the run never resumes.
C5_ThrowHalts ==
  /\ [][(event' = "threw" /\ actor' = runRef /\ runPc[runRef] \in ActivePhases) =>
          /\ phase' = "error"
          /\ error' \notin {Null, Some("")}
          /\ running' = FALSE
          /\ results' = results
          /\ UnfinishedNull(phase, results')
          /\ runPc'[runRef] = "done"]_vars
  /\ [][\A r \in Runs : runPc[r] = "done" => runPc'[r] = "done"]_vars

\* the download of the current run threw after its ping had completed
C5_Witness ==
  /\ event = "threw" /\ actor = runRef /\ phase = "error"
  /\ results.ping # Null /\ results.download = Null

---------------------------------------------------------------------------
(* Claims about measureDownload                                            *)

\* every controller registered is aborted
AllAborted == dControllers \subseteq dAborted

\* C6: when an error that is no AbortError reaches the catch block of a worker
\* while stop is unset, stop is set, the controllers of all workers are
\* aborted, and measureDownload rejects with that error: it returns no result.
C6_ErrorAbortsAndRejects ==
  /\ [][(dCaught' # dCaught /\ ~dStop) =>
          /\ dStop'
          /\ dControllers \subseteq dAborted'
          /\ dRejection' = Some(dCaught'[1][2])
          /\ wPc'[dCaught'[1][1]] = "threw"]_vars
  /\ []((\E w \in Workers : wPc[w] = "threw") =>
          /\ dStop
          /\ dRejection # Null
          /\ dResult = Null
          /\ dPc # "returned"
          /\ AllAborted)
  /\ (\E w \in Workers : wPc[w] = "threw") ~> (dPc = "threw" /\ dResult = Null)

\* the remote response was unusable, the local fallback answered without a
\* body, and measureDownload has rejected with that error
C6_Witness ==
  /\ dPc = "threw"
  /\ dRejection = Some("Download stream unavailable")
  /\ \E w \in Workers : wPc[w] = "threw" /\ wFetches[w] = <<"remote", "local">>

\* every worker found its remote response unusable and the local endpoint
\* never failed, ended or sent an empty chunk
RemoteAlwaysFails ==
  /\ dRemoteTarget # Null
  /\ ~dRemoteKept
  /\ \A w \in Workers : wPc[w] # "remoteFetch"
  /\ ~dLocalFault

\* C7 as stated: if the remote request of every worker fails and the local
\* endpoint streams data, measureDownload resolves with more than 0 bytes.
C7_Original ==
  (dPc \in {"returned", "threw"} /\ RemoteAlwaysFails) =>
    (dPc = "returned" /\ dResult[1].bytes > 0)

\* C7 as amended: if the remote request of every worker fails and the local
\* endpoint streams data, every worker goes on to fetch the local stream and
\* measureDownload resolves with the bytes of the chunks read, which are more
\* than 0 unless the timer aborted every local fetch before its first chunk.
C7_FallbackResolves ==
  (dPc \in {"returned", "threw"} /\ RemoteAlwaysFails) =>
    /\ dPc = "returned"
    /\ \A w \in Workers : wFetches[w] = <<"remote", "local">>
    /\ dResult[1].bytes = dDelivered
    /\ dResult[1].bytes > 0 \/ (dTimer = "fired" /\ dChunks = 0)

\* every remote request failed and the local streams were read
C7_Witness ==
  /\ dPc = "returned"
  /\ RemoteAlwaysFails
  /\ dResult[1].bytes > 0

\* C8: a worker that finds the deadline passed after a chunk, with stop unset,
\* sets stop, aborts the controllers of all other workers, cancels its own
\* reader and returns; no worker throws and measureDownload returns a result.
C8_DeadlineObserver ==
  /\ [][dObserver' # dObserver =>
          /\ ~dStop /\ dStop'
          /\ dNow >= dDuration
          /\ (dControllers \ {dObserver'}) \subseteq dAborted'
          /\ dAborted' \ dAborted \subseteq dControllers \ {dObserver'}
          /\ wPc'[dObserver'] = "cancelling"]_vars
  /\ [][\A w \in Workers : wPc[w] = "cancelling" => wPc'[w] \in {"cancelling", "returned"}]_vars
  /\ [](dObserver # 0 =>
          /\ dStop
          /\ dRejection = Null
          /\ dPc # "threw"
          /\ \A w \in Workers : wPc[w] # "threw")
  /\ (dObserver # 0) ~> (dPc = "returned" /\ dResult # Null)

\* the observer has returned and so has measureDownload, while another worker
\* was stopped by the abort
C8_Witness ==
  /\ dObserver # 0
  /\ dPc = "returned"
  /\ \E w \in Workers : w # dObserver /\ w \in dAborted /\ dChunks = 1

\* C9: when the timer fires, stop is set and every registered controller is
\* aborted; afterwards every worker terminates, no error is propagated, and
\* measureDownload returns a result.
C9_TimerStops ==
  /\ [][(dTimer' = "fired" /\ dTimer # "fired") =>
          /\ dStop'
          /\ dControllers \subseteq dAborted']_vars
  /\ [](dTimer = "fired" =>
          /\ dStop
          /\ dRejection = Null
          /\ dPc # "threw"
          /\ \A w \in Workers : wPc[w] # "threw"
          /\ \A w \in Workers : Finished(w) \/ w \in dAborted)
  /\ (dTimer = "fired") ~> (dPc = "returned" /\ dResult # Null
                             /\ \A w \in Workers : wPc[w] = "returned")

\* the timer stopped the workers, one of them after a network error that was
\* not propagated
C9_Witness ==
  /\ dTimer = "fired"
  /\ dPc = "returned"
  /\ dSwallowed

---------------------------------------------------------------------------
(* Claims about measureUpload                                              *)

\* the mode of the request the worker created last
LastSend(sends) == sends[Len(sends)]

RemoteSends(w) == Cardinality({i \in 1..Len(xSends[w]) : xSends[w][i] = "remote"})

\* measureUpload is over; the remote requests of exactly one worker W failed,
\* W then sent to the local endpoint, no local request failed, and every other
\* worker sent to the remote endpoint without a failure
OnlyOneWorkerFellBack ==
  /\ uPc \in {"returned", "threw"}
  /\ ~uLocalFailed
  /\ \E W \in Workers :
       /\ xFailed = {W}
       /\ RemoteSends(W) = 1
       /\ Len(xSends[W]) > 1
       /\ \A v \in Workers \ {W} : RemoteSends(v) > 0

\* C11 as stated: in that case measureUpload resolves and its byte count is the
\* sum of the bytes credited to W's local requests and to the requests of the
\* other workers, that is, to every request but W's failed remote one.
C11_Original ==
  OnlyOneWorkerFellBack =>
    /\ uPc = "returned"
    /\ uResult # Null
    /\ uResult[1].bytes = uCreditOk + uCreditAborted

\* C11 (amended): if the remote requests of one worker W fail while the local
\* endpoint accepts W's requests and the remote requests of the other workers
\* do not fail, measureUpload resolves and its byte count is the sum of the
\* bytes credited to W's local requests, to the requests of the other workers,
\* and by progress events to W's remote request before it failed.
C11_FallbackTotal ==
  OnlyOneWorkerFellBack =>
    /\ uPc = "returned"
    /\ uRejection = Null
    /\ uResult # Null
    /\ uResult[1].bytes = uCreditOk + uCreditAborted + uCreditFailed

C11_Witness ==
  /\ OnlyOneWorkerFellBack
  /\ uPc = "returned"
  /\ uCreditFailed > 0
  /\ uCreditOk > 0


\* the step in which the deadline timer of measureUpload fires
UlDeadlineStep == uTimer = "armed" /\ uTimer' = "fired"

\* C12: when the deadline timer of measureUpload fires, stop is set and every
\* request in flight is aborted, which resolves its worker and rejects nothing;
\* once stop is set a worker with a pending scheduled send resolves without
\* creating a request; and after the timer has fired measureUpload eventually
\* returns a result and never throws.
C12_TimerStops ==
  /\ [][UlDeadlineStep =>
          /\ uStop'
          /\ uploads' = {}
          /\ \A w \in Owners(uploads) : xPc'[w] = "resolved"
          /\ \A w \in Workers : xPc'[w] # "rejected"
          /\ uRejection' = Null]_vars
  /\ [][\A w \in Workers :
          (uStop /\ xPc[w] \in {"next", "retry"} /\ xPc'[w] # xPc[w]) =>
            (xPc'[w] = "resolved" /\ xSends'[w] = xSends[w])]_vars
  /\ [](uTimer = "fired" => (uPc # "threw" /\ uRejection = Null))
  /\ (uTimer = "fired" ~> (uPc = "returned" /\ uResult # Null))

\* the timer has fired with a request in flight that had reported progress, and
\* a worker with a pending send is still to run
C12_Witness ==
  /\ uTimer = "fired"
  /\ uPc = "running"
  /\ uCreditAborted > 0
  /\ \E w \in Workers : xPc[w] \in {"next", "retry"}
  /\ \E v \in Workers : xPc[v] = "resolved" /\ xSends[v] # <<>>


\* the errors that a failed request passes to fail()
UploadErrors ==
  {<<"send failed">>, <<"Upload request failed">>}
    \cup {<<"Upload failed with status", st>> : st \in {x \in StatusInputs : ~StatusOk(x)}}

\* the step in which a request to the local endpoint fails while stop is unset
LocalFailureStep == ~uLocalFailed /\ uLocalFailed' /\ ~uStop

\* C13: when a request to the local endpoint fails while stop is unset, stop is
\* set and the worker rejects with the error of that failure; no handler runs
\* before the finally block of measureUpload, which aborts every request still
\* in flight and resolves their workers; measureUpload then throws that error
\* and returns no result.
C13_LocalFailureRejects ==
  /\ [][LocalFailureStep =>
          /\ uStop'
          /\ uRejection = Null
          /\ uRejection' # Null
          /\ uRejection'[1] \in UploadErrors
          /\ \E w \in Workers : xPc[w] # "rejected" /\ xPc'[w] = "rejected"]_vars
  /\ []((uRejection # Null /\ uPc \notin {"returned", "threw"}) => UlBusy)
  /\ [][(uPc # "threw" /\ uPc' = "threw") =>
          /\ uploads' = {}
          /\ \A w \in Owners(uploads) : xPc'[w] = "resolved"
          /\ uRejection' = uRejection
          /\ uResult' = Null]_vars
  /\ [](uRejection # Null => uPc # "returned")
  /\ (uRejection # Null ~> uPc = "threw")

\* measureUpload threw after a local failure, and the finally block aborted a
\* request of another worker that had reported progress
C13_Witness ==
  /\ uPc = "threw"
  /\ uLocalFailed
  /\ uTimer = "cleared"
  /\ uCreditAborted > 0
  /\ \E w \in Workers : xPc[w] = "rejected"
  /\ \E v \in Workers : xPc[v] = "resolved" /\ xSends[v] # <<>>


\* the step in which a request ends in onload with a status in 200..399
CompletionStep == uCompleted' = uCompleted + 1

\* C14 as stated: every request that completes with a success status has
\* contributed exactly the payload size to the total.
C14_Original == uCreditOk = uCompleted * chunkBytes

\* C14 (amended): a request that completes with a success status while stop is
\* unset gets the remainder (payload size minus the last loaded value that a
\* progress event reported) added at completion, so that it has contributed
\* exactly the payload size whatever progress events were delivered; one that
\* completes after stop was set adds nothing at completion and has contributed
\* only what its progress events had added.
C14_RemainderCredited ==
  [][CompletionStep =>
       \E w \in Owners(uploads \ uploads') :
         IF uStop
           THEN /\ totalUploaded' = totalUploaded
                /\ uCreditOk' = uCreditOk + lastLoaded[w]
           ELSE /\ totalUploaded' = totalUploaded + (chunkBytes - lastLoaded[w])
                /\ uCreditOk' = uCreditOk + chunkBytes]_vars

\* two requests completed with stop unset, each counted in full, while a
\* request in flight has reported progress
C14_Witness ==
  /\ uCompleted = 2
  /\ ~uStop
  /\ uCreditOk = 2 * chunkBytes
  /\ totalUploaded > uCreditOk
  /\ LoadedInFlight > 0


\* worker w creates a request in this step
Dispatches(w) == Len(xSends'[w]) = Len(xSends[w]) + 1

\* the request of worker w ends in this step in onload with a success status
Completes(w) == CompletionStep /\ w \in Owners(uploads \ uploads')

\* every worker has at most one request in flight, the one it created last
OnePerWorker ==
  /\ \A r1, r2 \in uploads : r1[1] = r2[1] => r1 = r2
  /\ \A r \in uploads : r = Request(r[1]) /\ xPc[r[1]] = "inflight"
  /\ Cardinality(uploads) <= Concurrency

\* C15 as stated: a worker creates no request once stop is set or the deadline
\* has passed.
C15_Original ==
  [][\A w \in Workers : Dispatches(w) => (~uStop /\ uNow < uDuration)]_vars

\* C15 (amended): each worker has at most one request in flight at any time, so
\* uploads never holds more than Concurrency requests; a request that completes
\* with a success status while stop is unset and before the deadline makes its
\* worker schedule the next send, which creates one new request if stop is
\* still unset when the timeout runs; after a successful completion with stop
\* set or at or after the deadline the worker resolves; and no worker creates a
\* request once stop is set.
C15_OneAtATime ==
  /\ []OnePerWorker
  /\ [][\A w \in Workers :
          Completes(w) =>
            xPc'[w] = IF ~uStop /\ uNow < uDuration THEN "next" ELSE "resolved"]_vars
  /\ [][\A w \in Workers :
          (xPc[w] = "next" /\ xPc'[w] # "next" /\ ~uStop) =>
            (Dispatches(w) /\ (xPc'[w] = "inflight" => Request(w)' \notin uploads))]_vars
  /\ [][\A w \in Workers : Dispatches(w) => ~uStop]_vars

\* a worker whose first request completed has its second request in flight
\* next to the request of another worker
C15_Witness ==
  /\ ~uStop
  /\ uCompleted > 0
  /\ Cardinality(uploads) = Concurrency
  /\ \E w \in Workers : Len(xSends[w]) >= 2 /\ Request(w) \in uploads


---------------------------------------------------------------------------
(* Claims about measureDownload and measureUpload without a remote URL     *)

\* every element of the sequence q is the local endpoint
AllLocal(q) == \A i \in 1..Len(q) : q[i] = "local"

\* measureDownload ran without a remote target: every fetch went to the local
\* endpoint, and the call returned a result unless the local endpoint failed
DownloadStaysLocal ==
  (dPc # "init" /\ dUrlBlank) =>
    /\ dRemoteTarget = Null
    /\ \A w \in Workers : wFetches[w] # <<>> /\ AllLocal(wFetches[w])
    /\ ~dRemoteKept
    /\ dPc = "threw" => dLocalFault
    /\ dPc = "returned" => (dResult # Null /\ dRejection = Null)

\* measureUpload ran without a remote endpoint: every request went to the local
\* endpoint, and the call returned a result unless a local request failed
UploadStaysLocal ==
  (uPc # "init" /\ uUrlBlank) =>
    /\ remoteEndpoint = Null
    /\ ~preferRemoteUpload
    /\ \A w \in Workers : AllLocal(xSends[w]) /\ xPc[w] # "retry"
    /\ xFailed = {} /\ xFellBack = {}
    /\ uPc = "threw" => uLocalFailed
    /\ uPc = "returned" => (uResult # Null /\ uRejection = Null)

\* C16: a remoteUrl that is undefined, null, empty or blank gives no remote
\* target; measureDownload and measureUpload then send every request to the
\* local endpoint and none to a remote one, and the call returns a result
\* unless the local endpoint itself fails.
C16_NoRemoteStaysLocal ==
  /\ DownloadStaysLocal
  /\ UploadStaysLocal

\* measureDownload without a remote target returned bytes read from local streams
C16_DownloadCase ==
  /\ dPc = "returned"
  /\ dUrlBlank
  /\ dTotalBytes > 0
  /\ \A w \in Workers : wFetches[w] = <<"local">>

\* measureUpload without a remote endpoint returned bytes sent in several local
\* requests
C16_UploadCase ==
  /\ uPc = "returned"
  /\ uUrlBlank
  /\ uCompleted >= 2
  /\ \A w \in Workers : xSends[w] # <<>> /\ AllLocal(xSends[w])

C16_Witness == C16_DownloadCase \/ C16_UploadCase


---------------------------------------------------------------------------
(* Claims about measurePing                                                *)

\* measurePing returned a result
PingReturned == pPc = "returned" /\ pResult # Null

\* C17: a run of measurePing with R >= 1 rounds and concurrency C >= 2 that
\* returns has issued exactly R * C requests, and the samples it returns are
\* exactly R * (C - 1); no run issues more than R * C requests.
C17_RequestsAndSamples ==
  /\ pIssued <= pRounds * pConcurrency
  /\ (pPc = "returned" /\ pRounds >= 1 /\ pConcurrency >= 2) =>
       /\ pResult # Null
       /\ pIssued = pRounds * pConcurrency
       /\ Len(pResult[1].samples) = pRounds * (pConcurrency - 1)

C17_Witness ==
  /\ PingReturned
  /\ pRounds = 2
  /\ pConcurrency = 4
  /\ pIssued = 8
  /\ Len(pResult[1].samples) = 6

\* the value that the request in place i of the current round has at the end
\* of the step that completes the round
ValueAtEnd(i) == IF batch[i] = Pending THEN pCalls'[pRound * pConcurrency + i][1]
                 ELSE batch[i].ms

\* C18: when a round completes, the samples added to filtered are the results
\* of the requests issued second to last in that round, in the order of issue,
\* whichever request completed first or took longest; the samples returned are
\* those of the rounds one after the other.
C18_FirstIssuedDiscarded ==
  /\ [][pRound' = pRound + 1 =>
          /\ Len(filtered') = Len(filtered) + pConcurrency - 1
          /\ \A j \in 1..Len(filtered) : filtered'[j] = filtered[j]
          /\ \A i \in 2..pConcurrency :
               filtered'[Len(filtered) + i - 1] = ValueAtEnd(i)]_vars
  /\ [](PingReturned => pResult[1].samples = filtered)
  /\ [](Len(filtered) = pRound * (pConcurrency - 1))

\* the request issued first was the fastest of its round and is the one left
\* out: the round [10, 14, 12, 12] retains [14, 12, 12]
C18_Witness ==
  /\ PingReturned
  /\ pRounds = 1
  /\ pConcurrency = 4
  /\ pCalls[1][1] = 10
  /\ pResult[1].samples = <<14, 12, 12>>

\* the squares of the elements of q, summed
RECURSIVE SumOfSquares(_)
SumOfSquares(q) == IF q = <<>> THEN 0 ELSE Head(q) * Head(q) + SumOfSquares(Tail(q))

\* the population variance of q: the mean of the squares less the square of
\* the mean
PopulationVariance(q) ==
  Frac(Len(q) * SumOfSquares(q) - Sum(q) * Sum(q), Len(q) * Len(q))

\* C19: a result with a non-empty samples sequence has for average the
\* arithmetic mean of the samples and for jitter the non-negative root of
\* their population variance (the squared deviations divided by the number of
\* samples); the samples [10, 12, 14] give average 12 and jitter squared 8/3.
C19_MeanAndDeviation ==
  (PingReturned /\ pResult[1].samples # <<>>) =>
    LET r == pResult[1]
        n == Len(r.samples)
    IN /\ r.average[2] # 0
       /\ FracEq(r.average, Frac(Sum(r.samples), n))
       /\ r.jitter.square[2] > 0
       /\ r.jitter.square[1] >= 0
       /\ FracEq(r.jitter.square, PopulationVariance(r.samples))
       /\ r.samples = <<10, 12, 14>> =>
            (FracEq(r.average, Frac(12, 1)) /\ FracEq(r.jitter.square, Frac(8, 3)))

C19_Witness == PingReturned /\ pResult[1].samples = <<10, 12, 14>>

\* C20: with concurrency 1 no sample is retained, and a run whose requests all
\* succeed returns average 0, jitter 0 and no samples for any number of rounds;
\* it throws only when a request failed, and no result has a zero denominator.
C20_NoSamplesGivesZeros ==
  /\ (pPc = "returned" /\ pConcurrency = 1) =>
       /\ filtered = <<>>
       /\ pResult = Some([average |-> FracZero, jitter |-> Sqrt(FracZero),
                          samples |-> <<>>])
  /\ (pPc = "threw" /\ pConcurrency = 1) => (batch = <<Failed>> /\ pResult = Null)
  /\ PingReturned => (pResult[1].average[2] # 0 /\ pResult[1].jitter.square[2] # 0)

C20_Witness ==
  /\ PingReturned
  /\ pConcurrency = 1
  /\ pRounds = 2
  /\ pIssued = 2
  /\ pResult[1].samples = <<>>


\* a request of the current round fails in this step
PingFailureStep ==
  \E c \in 1..Len(batch) : batch[c] = Pending /\ c <= Len(batch') /\ batch'[c] = Failed

\* C21: when a request of any round fails (the status is neither 2xx nor 204,
\* or fetch rejects), measurePing rejects with that error in the same step and
\* stays rejected; it returns no result, makes no onProgress call for the
\* round that failed, and issues no further request.
C21_FailureRejects ==
  /\ [][PingFailureStep =>
          /\ pPc' = "threw"
          /\ pRejection' # Null
          /\ pRejection'[1] \in PingErrors]_vars
  /\ [][pPc = "threw" =>
          /\ pPc' = "threw"
          /\ pIssued' = pIssued
          /\ pCalls' = pCalls
          /\ pRejection' = pRejection]_vars
  /\ [](pPc = "threw" =>
          /\ pResult = Null
          /\ Len(pCalls) = pRound * pConcurrency
          /\ pIssued = (pRound + 1) * pConcurrency)
  /\ [](\A c \in 1..Len(batch) : batch[c] = Failed => pPc = "threw")

\* a request of the second round got status 500 after another request of that
\* round had succeeded: the first round was reported, the second is not
C21_Witness ==
  /\ pPc = "threw"
  /\ pRejection = Some(<<"Ping failed with status", 500>>)
  /\ pRound = 1
  /\ pConcurrency = 4
  /\ Len(pCalls) = 4
  /\ pIssued = 8
  /\ pResult = Null
  /\ \E c \in 1..Len(batch) : batch[c].st = "done"


\* the completed count and the total count of the i-th onProgress call
CompletedAt(i) == pCalls[i][2]

TotalAt(i) == pCalls[i][3]

\* C22: over the onProgress calls of one run the completed count is strictly
\* increasing and never above rounds * concurrency, the total count is
\* rounds * concurrency in every call, and the last call of a run that returns
\* has completed = total.
C22_CompletedIncreases ==
  /\ \A i, j \in 1..Len(pCalls) : i < j => CompletedAt(i) < CompletedAt(j)
  /\ \A i \in 1..Len(pCalls) :
       /\ CompletedAt(i) >= 1
       /\ CompletedAt(i) <= pRounds * pConcurrency
       /\ TotalAt(i) = pRounds * pConcurrency
  /\ PingReturned =>
       (pCalls # <<>> /\ CompletedAt(Len(pCalls)) = TotalAt(Len(pCalls)))

C22_Witness ==
  /\ PingReturned
  /\ pRounds = 2
  /\ pConcurrency = 2
  /\ CompletedAt(1) = 1
  /\ CompletedAt(Len(pCalls)) = 4
  /\ TotalAt(1) = 4

\* C23 as stated: a run of R rounds that returns has made exactly R onProgress
\* calls, one per round.
C23_Original == PingReturned => Len(pCalls) = pRounds

\* C23 (amended): onProgress is called only when a round has completed, then
\* once for every sample of that round in the order of issue, passing that
\* sample and the number of samples reported so far; a run of R rounds with
\* concurrency C that returns has made exactly R * C calls.
C23_CallPerSample ==
  /\ [][pCalls' # pCalls => pRound' = pRound + 1]_vars
  /\ [][pRound' = pRound + 1 =>
          /\ Len(pCalls') = Len(pCalls) + pConcurrency
          /\ \A i \in 1..Len(pCalls) : pCalls'[i] = pCalls[i]
          /\ \A i \in 1..pConcurrency :
               /\ pCalls'[Len(pCalls) + i][1] = ValueAtEnd(i)
               /\ pCalls'[Len(pCalls) + i][2] = Len(pCalls) + i]_vars
  /\ [](PingReturned => Len(pCalls) = pRounds * pConcurrency)

\* two rounds of four requests made eight calls; the first call of the second
\* round carries that round's first sample, which is not retained
C23_Witness ==
  /\ PingReturned
  /\ pRounds = 2
  /\ pConcurrency = 4
  /\ Len(pCalls) = 8
  /\ pCalls[5] = <<14, 5, 8>>
  /\ pCalls[8] = <<10, 8, 8>>

\* a round is issued in this step
IssueStep == pIssued' > pIssued

\* C24: the requests of a round are issued together, all of them before any is
\* awaited, and a round is issued only in the step in which the last pending
\* request of the round before it completes; the requests of a round complete
\* in any order.
C24_RoundsInSequence ==
  /\ [][IssueStep =>
          /\ pIssued' = pIssued + pConcurrency'
          /\ Len(batch') = pConcurrency'
          /\ \A c \in 1..Len(batch') : batch'[c] = Pending
          /\ Cardinality({c \in 1..Len(batch) : batch[c] = Pending}) <= 1
          /\ \A c \in 1..Len(batch) : batch[c] \in {Pending} \cup {Done(ms) : ms \in Latencies}]_vars
  /\ [](pPc = "awaiting" => (Len(batch) = pConcurrency /\ pIssued = (pRound + 1) * pConcurrency))
  /\ [](pPc = "awaiting" => \E c \in 1..Len(batch) : batch[c] = Pending)

\* in the second round the request issued last has completed while the one
\* issued first is pending, and the third has completed before the second
C24_Witness ==
  /\ pPc = "awaiting"
  /\ pRound = 1
  /\ pConcurrency = 4
  /\ batch[1] = Pending
  /\ batch[2] = Pending
  /\ batch[3].st = "done"
  /\ batch[4].st = "done"


---------------------------------------------------------------------------
(* Claims about the results of measureDownload and measureUpload           *)

\* mbps * seconds * 1,000,000 = bytes * 8 for a returned object r
RateMatchesBytes(r) ==
  FracEq(FracMul(FracMul(r.mbps, r.seconds), Frac(1000000, 1)), Frac(r.bytes * 8, 1))

\* C25: every result measureDownload or measureUpload returns satisfies
\* mbps * seconds * 1,000,000 = bytes * 8, where bytes is the final value of the
\* shared byte counter, which is the sum of all bytes the workers credited.
C25_RateTimesSecondsIsBits ==
  /\ dPc = "returned" =>
       /\ RateMatchesBytes(dResult[1])
       /\ dResult[1].bytes = dTotalBytes
       /\ dTotalBytes = dDelivered
  /\ uPc = "returned" =>
       /\ RateMatchesBytes(uResult[1])
       /\ uResult[1].bytes = totalUploaded
       /\ totalUploaded = uCreditOk + uCreditAborted + uCreditFailed

\* measureDownload returned bytes of several chunks after more than the duration
C25_DownloadCase ==
  /\ dPc = "returned"
  /\ dResult[1].bytes >= 2
  /\ dResult[1].seconds = Seconds(MaxClock)
  /\ dDuration < MaxClock

\* measureUpload returned bytes credited for completed and for aborted requests
C25_UploadCase ==
  /\ uPc = "returned"
  /\ uCreditOk > 0
  /\ uCreditAborted > 0
  /\ uResult[1].seconds = Seconds(MaxClock)

C25_Witness == C25_DownloadCase \/ C25_UploadCase

\* a <= b for fractions with positive denominators
FracLeq(a, b) == a[1] * b[2] <= b[1] * a[2]

\* durationMs / 1000
ConfiguredSeconds(configured) == Frac(configured[1], configured[2] * 1000)

C26_DownloadCase ==
  /\ dPc = "returned"
  /\ dTimer = "cleared"
  /\ dNow < dDuration
  /\ dResult[1].seconds = Seconds(dDuration)

\* measureUpload was called with less than the minimum and returned
C26_UploadCase ==
  /\ uPc = "returned"
  /\ Floor(uDurationMs) < 1000
  /\ FracLeq(FracOne, uResult[1].seconds)

---------------------------------------------------------------------------
(* Claims about the run token and the restart                              *)

\* an invocation of startTest that was not rejected as a no-op
AcceptedStart == startCalls' # startCalls /\ event' = "accepted"

\* the tokens allocated so far are 1..runRef
TokensAllocated == \A r \in Runs : (runPc[r] # "none") <=> (r <= runRef)

\* C27: every startTest that is not rejected as a no-op allocates a token
\* strictly greater than every token allocated before; the counter never
\* decreases and is never reset, whether the earlier runs completed, failed
\* or were superseded.
C27_TokensIncrease ==
  [][/\ TokensAllocated
     /\ runRef' >= runRef
     /\ AcceptedStart =>
          /\ runRef' > runRef
          /\ \A r \in Runs : runPc[r] # "none" => r < runRef'
          /\ runPc[runRef'] = "none"
     /\ ~AcceptedStart => runRef' = runRef]_vars

\* a second token was allocated while the first run was still measuring
C27_Witness ==
  /\ event = "accepted"
  /\ runRef = 2
  /\ runPc[1] \in ActivePhases
  /\ runPc[2] = "ping"

\* the phases in which no run is in flight
RestPhases == {"idle", "complete", "error"}

\* the display of a run that has just been accepted
FreshRun ==
  /\ phase = "ping"
  /\ running
  /\ results = [ping |-> Null, jitter |-> Null, download |-> Null, upload |-> Null]
  /\ progress = [ping |-> FracZero, download |-> FracZero, upload |-> FracZero]
  /\ error = Null
  /\ durationMs = 0
  /\ liveValue = 0
  /\ speedScale = 100

\* C28: a startTest accepted in phase idle, complete or error restarts the
\* sequence: the phase becomes ping, the four results become null, the three
\* progress values 0, the error message null and the duration 0, so no value
\* of the previous run is displayed in the new run.
C28_RestartResets ==
  [][(AcceptedStart /\ phase \in RestPhases) =>
       /\ runRef' = runRef + 1
       /\ runPc'[runRef'] = "ping"
       /\ FreshRun']_vars

\* a second run was accepted after the first had completed or failed
C28_Witness ==
  /\ event = "accepted"
  /\ runRef = 2
  /\ runPc[1] = "done"
  /\ FreshRun


---------------------------------------------------------------------------
(* Claims about the local download endpoint                                *)

\* the request carried bytes=0
ZeroRequested == ePc # "idle" /\ eRawBytes = Some("0")

\* the chunk size the request asks for, limited to the allowed range
ClampedChunk == ClampChunkSize(ParsePositiveInt(eRawChunk))

\* a pull of the stream: a step of the open stream that is no cancellation
PullStep ==
  /\ ePc = "open"
  /\ eCancelRequested' = eCancelRequested
  /\ <<ePc, ePulls>>' # <<ePc, ePulls>>

\* the response to bytes=0 is the continuous stream
ContinuousResponse ==
  /\ eTotalBytes = Null
  /\ eContentLength = Null
  /\ ePc = "closed" => eCancelRequested
  /\ ePulls > 0 => (eLast = ClampedChunk /\ eLast \in MIN_CHUNK_SIZE..MAX_CHUNK_SIZE)

\* every pull of the response to bytes=0 emits one chunk and leaves it open
PullEmits ==
  (ZeroRequested /\ PullStep) => (ePulls' = ePulls + 1 /\ ePc' = "open")

\* C29: a GET on the local download endpoint with bytes=0 returns a
\* continuous stream: every pull emits a chunk of the clamped chunk size, the
\* stream never closes on its own, the response has no Content-Length header,
\* and the stream closes only after the client has cancelled it.
C29_ZeroIsContinuous ==
  /\ [](ZeroRequested => ContinuousResponse)
  /\ [][PullEmits]_vars

\* the same for the GET of src/unnamed/part_000 alone
C29_ContinuousInPart000 ==
  /\ [](ZeroRequested /\ eHandler = "part_000" => ContinuousResponse)
  /\ [][eHandler = "part_000" => PullEmits]_vars

\* the GET of route.ts answered bytes=0 with a stream that ended by itself
\* after DEFAULT_TOTAL_BYTES and announced that length
C29_Witness ==
  /\ ZeroRequested
  /\ eHandler = "route.ts"
  /\ ePc = "closed"
  /\ ~eCancelRequested
  /\ sent = DEFAULT_TOTAL_BYTES
  /\ eContentLength = Some(DEFAULT_TOTAL_BYTES)

\* the GET of part_000 answered bytes=0 with a stream that was pulled MaxPulls
\* times and then cancelled
C29_ContinuousCase ==
  /\ ZeroRequested
  /\ eHandler = "part_000"
  /\ ePulls = MaxPulls
  /\ ePc = "closed"
  /\ cancelled


---------------------------------------------------------------------------
(* Claims about the progress reports of measureDownload                    *)

\* worker w resumes with a non-empty chunk: its read had resolved with one
ChunkStep(w) == wPc[w] = "gotChunk" /\ wPc'[w] # "gotChunk" /\ wChunk[w] > 0

\* the report made last was computed from the current counter and clock
ReportIsCurrent ==
  /\ dProgress # Null
  /\ dProgress[1].bytes = dTotalBytes
  /\ dProgress[1].mbps = Rate(dTotalBytes, dNow)

\* 0 <= q <= 1
InUnit(q) == FracLeq(FracZero, q) /\ FracLeq(q, FracOne)

\* the reports of a call: fractions in [0, 1]; after the return the last one
\* has fraction 1 and the rate of the result, and no report follows it
ReportsInRange ==
  /\ [](dProgress # Null => InUnit(dProgress[1].fraction))
  /\ [](dPc = "returned" =>
          /\ dProgress # Null
          /\ dProgress[1].fraction = FracOne
          /\ dProgress[1].mbps = dResult[1].mbps
          /\ dProgress[1].bytes = dResult[1].bytes)
  /\ [][dPc = "returned" => dProgress' = dProgress]_vars

\* C30 as stated: every received non-empty chunk is added to the shared byte
\* counter and followed by a progress report whose rate is computed from the
\* counter's current value; every reported fraction lies in [0, 1], and the
\* last report of a call that returns has fraction 1 and the final rate.
C30_Original ==
  /\ [][\A w \in Workers : ChunkStep(w) =>
          /\ dTotalBytes' = dTotalBytes + wChunk[w]
          /\ ReportIsCurrent']_vars
  /\ ReportsInRange

\* C30 as amended: every received non-empty chunk is added to the shared byte
\* counter and, unless no time has elapsed since the start of the measurement,
\* followed by one progress report whose rate is computed from the counter's
\* current value; a chunk received at elapsed time 0 is added without a
\* report.  Every reported fraction lies in [0, 1], and the last report of a
\* call that returns has fraction 1 and the final rate.
C30_ChunkCountedAndReported ==
  /\ [][\A w \in Workers : ChunkStep(w) =>
          /\ dTotalBytes' = dTotalBytes + wChunk[w]
          /\ IF dNow > 0 THEN ReportIsCurrent' ELSE dProgress' = dProgress]_vars
  /\ ReportsInRange

\* a chunk was reported before the deadline, with a fraction below 1
C30_Witness ==
  /\ dPc = "running"
  /\ dTotalBytes > 0
  /\ ReportIsCurrent
  /\ ~FracEq(dProgress[1].fraction, FracOne)
  /\ \E w \in Workers : wPc[w] = "reading"

\* a chunk received at elapsed time 0 was counted and not reported
C30_UnreportedChunk == dTotalBytes > 0 /\ dProgress = Null


\* the request carried a positive whole byte count
PositiveRequested ==
  /\ ePc # "idle"
  /\ eRawBytes # Null
  /\ NumberOf(eRawBytes[1]) # NaN
  /\ NumberOf(eRawBytes[1])[2] = 1
  /\ NumberOf(eRawBytes[1])[1] > 0

\* that byte count
RequestedBytes == NumberOf(eRawBytes[1])[1]

\* the response announces N bytes and its stream has emitted no more than N,
\* in chunks of 1..limit bytes; if it closed by itself it has emitted N
FixedResponse(limit) ==
  /\ eTotalBytes = Some(RequestedBytes)
  /\ eContentLength = Some(RequestedBytes)
  /\ sent <= RequestedBytes
  /\ ePulls > 0 => eLast \in 1..limit
  /\ (ePc = "closed" /\ ~eCancelRequested) => sent = RequestedBytes

\* a pull emits the next chunk while bytes are missing and closes the stream
\* once N bytes are out
FixedPullStep ==
  (PositiveRequested /\ PullStep) =>
    IF sent = RequestedBytes
      THEN ePc' = "closed" /\ sent' = sent /\ ePulls' = ePulls
      ELSE ePc' = "open" /\ sent' = sent + eLast' /\ ePulls' = ePulls + 1

StreamChunkSize ==
  IF eHandler = "part_000" THEN ClampedChunk ELSE DEFAULT_CHUNK_SIZE

C31_RouteCase ==
  /\ PositiveRequested
  /\ eHandler = "route.ts"
  /\ eRawChunk = Some("1000")
  /\ ePulls = 1
  /\ eLast = 40000


---------------------------------------------------------------------------
(* Claims about the stop flag                                              *)

\* C32: in measureUpload, once stop is set (by the timer, by a worker that
\* sees the deadline pass, or by a failure) totalUploaded is never increased
\* again: a progress event or a successful completion that arrives later
\* credits nothing.
C32_NoUploadCreditAfterStop ==
  [][uStop => totalUploaded' = totalUploaded]_vars

\* a request completed with a success status after stop had been set by
\* another worker, and its remainder was not credited
C32_Witness ==
  /\ uStop
  /\ uTimer = "armed"
  /\ uCompleted >= 1
  /\ uCreditOk < uCompleted * chunkBytes
  /\ uRejection = Null

StartsFetch(w) == Len(wFetches'[w]) = Len(wFetches[w]) + 1

\* C34: within one measurement stop, once set, is never cleared, and after it
\* is set no upload worker creates a request (neither the next send nor a
\* pending local retry) and no download worker starts a fetch on a signal that
\* has not been aborted.
C34_StopIsFinal ==
  /\ [][(dStop => dStop') /\ (uStop => uStop')]_vars
  /\ [][uStop => \A w \in Workers : ~Dispatches(w)]_vars
  /\ [][dStop => \A w \in Workers : StartsFetch(w) => w \in dAborted]_vars

\* the remote request of an upload worker failed and its local retry was
\* pending when stop was set: the retry created no request and the worker
\* resolved
C34_Witness ==
  /\ uStop
  /\ \E w \in Workers :
       /\ w \in xFellBack
       /\ xSends[w] = <<"remote">>
       /\ xPc[w] = "resolved"

\* a download worker whose remote fetch failed after stop was set starts the
\* local fetch on its aborted signal
C34_DownloadCase ==
  /\ dStop
  /\ \E w \in Workers :
       /\ w \in dAborted
       /\ wFetches[w] = <<"remote", "local">>
       /\ wPc[w] = "localFetch"


---------------------------------------------------------------------------
(* Claims about the workers of measureDownload                             *)

\* the fetches one worker can make: one remote attempt, one local fetch, or
\* a remote attempt followed by the local fallback
FetchPlans == {<<>>, <<"remote">>, <<"local">>, <<"remote", "local">>}

\* measureDownload returns in this step
DlReturns == dPc = "running" /\ dPc' = "returned"

\* C35: measureDownload starts exactly Concurrency workers; each worker makes
\* at most one remote attempt followed by at most one local fetch and so opens
\* at most one stream; a worker that has returned (its stream ended) or thrown
\* starts no further fetch; and a call that returns before the deadline, every
\* stream having ended, returns without waiting for it, with the rate taken
\* over the full duration.
C35_OneStreamPerWorker ==
  /\ [](\A w \in Workers : wFetches[w] \in FetchPlans)
  /\ [][(dPc = "init" /\ dPc' = "running") =>
          Cardinality({w \in Workers : Len(wFetches'[w]) = 1}) = Concurrency]_vars
  /\ [][\A w \in Workers :
          Finished(w) => (wPc'[w] = wPc[w] /\ wFetches'[w] = wFetches[w])]_vars
  /\ [][(DlReturns /\ dNow < dDuration) =>
          /\ dNow' = dNow
          /\ \A w \in Workers : wPc[w] = "returned"
          /\ dResult' = Some(Throughput(dTotalBytes, dDuration))]_vars

\* every stream ended before the deadline, one of them the local fallback of a
\* failed remote attempt: the call returned before the deadline, stop unset,
\* with the seconds of the full duration
C35_Witness ==
  /\ dPc = "returned"
  /\ ~dStop
  /\ dNow < dDuration
  /\ dTotalBytes >= 1
  /\ \E w \in Workers : wFetches[w] = <<"remote", "local">>
  /\ dResult[1].seconds = Seconds(dDuration)


---------------------------------------------------------------------------
(* Claims about the end of a measurement                                   *)

\* measureDownload, measureUpload has returned or thrown
DlOver == dPc \in {"returned", "threw"}

UlOver == uPc \in {"returned", "threw"}

\* C36: when measureDownload or measureUpload returns or throws, its timer is
\* no longer armed, every transfer that was registered has been aborted and
\* the set of transfers in flight is empty; afterwards the timer does not
\* fire, no upload request is created, no fetch is started on a signal that has
\* not been aborted, and the byte counter and the progress report stay as they
\* are.
C36_CleanExit ==
  /\ [](DlOver => (dTimer # "armed" /\ dControllers = {}))
  /\ [](UlOver => (uTimer # "armed" /\ uploads = {}))
  /\ [][(~DlOver /\ DlOver') => dControllers \subseteq dAborted']_vars
  /\ [][(~UlOver /\ UlOver') =>
          \A w \in Owners(uploads) : xPc'[w] = "resolved"]_vars
  /\ [][DlOver =>
          /\ dTimer' = dTimer
          /\ dTotalBytes' = dTotalBytes
          /\ dProgress' = dProgress
          /\ \A w \in Workers : StartsFetch(w) => w \in dAborted]_vars
  /\ [][UlOver =>
          /\ uTimer' = uTimer
          /\ totalUploaded' = totalUploaded
          /\ uProgress' = uProgress
          /\ \A w \in Workers : ~Dispatches(w)]_vars

\* measureUpload threw before the deadline: the finally block cleared the
\* timer and aborted the request in flight of another worker, which had
\* reported progress
C36_Witness ==
  /\ uPc = "threw"
  /\ uTimer = "cleared"
  /\ uploads = {}
  /\ uCreditAborted > 0
  /\ \E w \in Workers : xPc[w] = "rejected"
  /\ \E w \in Workers : xPc[w] = "resolved" /\ xSends[w] # <<>>

\* measureUpload threw while a worker had a scheduled send pending, which is
\* still to run
C36_PendingCase ==
  /\ uPc = "threw"
  /\ uTimer = "cleared"
  /\ \E w \in Workers : xPc[w] \in {"next", "retry"}

\* measureDownload threw and a worker whose fetch was pending has returned
\* since, after an attempt on its aborted signal
C36_DownloadCase ==
  /\ dPc = "threw"
  /\ dTimer = "cleared"
  /\ \E w \in Workers :
       /\ w \in dAborted
       /\ wFetches[w] = <<"remote", "local">>
       /\ wPc[w] = "returned"


---------------------------------------------------------------------------
(* Claims about the running flag and superseded runs                       *)

\* C37: in every state of the orchestrator running is true exactly when the
\* phase is ping, download or upload, and false exactly when it is idle,
\* complete or error; a run that ends in complete or error clears running in
\* the same step.
C37_RunningIffActive ==
  /\ [](running <=> phase \in ActivePhases)
  /\ [](~running <=> phase \in RestPhases)
  /\ [][(phase \in ActivePhases /\ phase' \in {"complete", "error"}) => ~running']_vars

\* a second run was started after the first had ended, and ended in error with
\* running cleared
C37_Witness ==
  /\ runRef = 2
  /\ runPc[1] = "done"
  /\ runPc[2] = "done"
  /\ phase = "error"
  /\ error # Null
  /\ ~running

\* run r has been superseded: a later invocation of startTest took the token
Superseded(r) == runPc[r] # "none" /\ runRef # r

\* C38: a superseded run starts no further measurement: the first step it
\* takes after the measurement it was awaiting returned or threw ends it, so
\* it calls neither measureDownload nor measureUpload; and the step that
\* supersedes a run leaves the measurement that run awaits in progress.
C38_SupersededRunStops ==
  /\ [][\A r \in Runs :
          (Superseded(r) /\ runPc'[r] # runPc[r]) => runPc'[r] = "done"]_vars
  /\ [][\A r \in Runs :
          (runPc[r] \in ActivePhases /\ ~Superseded(r) /\ Superseded(r)') =>
            runPc'[r] = runPc[r]]_vars

\* the first run was superseded while it awaited measurePing; its measurement
\* went on and returned, and the run ended there while the second run is
\* still in its ping phase
C38_Witness ==
  /\ runRef = 2
  /\ runPc[1] = "done"
  /\ actor = 1
  /\ event = "resolved"
  /\ runPc[2] = "ping"
  /\ phase = "ping"


---------------------------------------------------------------------------
(* Claims about the uploaded-bytes counter                                 *)

\* C39: totalUploaded never decreases: the bytes credited by the progress
\* events of a request that later fails or is aborted stay in the total, so
\* the total is at least the bytes credited to completed, failed and aborted
\* requests together.
C39_CounterNeverDecreases ==
  /\ [][totalUploaded' >= totalUploaded]_vars
  /\ [](totalUploaded >= uCreditOk + uCreditFailed + uCreditAborted)

\* measureUpload returned after a remote request that had reported progress
\* failed and was retried locally: the total exceeds the payload size times
\* the number of requests that completed
C39_Witness ==
  /\ uPc = "returned"
  /\ xFellBack # {}
  /\ uCreditFailed > 0
  /\ uCompleted >= 1
  /\ uResult[1].bytes = totalUploaded
  /\ totalUploaded > uCompleted * chunkBytes

====
